---- MODULE Spec2Model ----
(***************************************************************************)
(* Model of the scan pipeline of orchestration-backend/api/tasks.py:       *)
(*   orchestrate_scan  (passive -> active -> vulnerability -> index)       *)
(*   passive_scan      (four hostname sources, union, sort)                *)
(*   active_scan       (per-port false-positive filter)                    *)
(* Host names are sequences of character codes, so that strip/lower/       *)
(* startswith/endswith/sorted are computed and not assumed.                *)
(***************************************************************************)
EXTENDS Integers, Sequences, FiniteSets, TLC

(* ------------------------------------------------------------------ *)
(* Strings as sequences of character codes                             *)
(* ------------------------------------------------------------------ *)
Dot == <<46>>                                             \* "."
Wild == <<42, 46>>                                        \* "*."
Blank == <<32>>                                           \* " "
RootDomain == <<101,120,97,109,112,108,101,46,99,111,109>> \* "example.com"
OtherDomain == <<101,118,105,108,46,99,111,109>>          \* "evil.com"
Www == <<119,119,119>>                                    \* "www"
Api == <<97,112,105>>                                     \* "api"
Mail == <<109,97,105,108>>                                \* "mail"
ApiUpper == <<65,80,73>>                                  \* "API"

WwwHost == Www \o Dot \o RootDomain                       \* "www.example.com"
ApiHost == Api \o Dot \o RootDomain                       \* "api.example.com"
MailHost == Mail \o Dot \o RootDomain                     \* "mail.example.com"

(* Addresses are strings too; EmptyStr is the '' the code uses for "no ip" *)
EmptyStr == <<>>
PlainIp == <<49,48,46,48,46,48,46,49>>                    \* "10.0.0.1"
PlainIp2 == <<49,48,46,48,46,48,46,50>>                   \* "10.0.0.2"
CdnIp == <<49,48,52,46,49,54,46,48,46,49>>                \* "104.16.0.1"

(* ------------------------------------------------------------------ *)
(* String operations of passive_scan, on sequences of character codes  *)
(* ------------------------------------------------------------------ *)
Newline == <<10>>
Comma == <<44>>

(* str.lower() on ASCII *)
LowerChar(c) == IF c >= 65 /\ c <= 90 THEN c + 32 ELSE c
Lower(s) == [i \in 1..Len(s) |-> LowerChar(s[i])]

(* str.strip(): leading and trailing whitespace removed *)
IsSpace(c) == c \in {32, 9, 10, 13}
RECURSIVE LStrip(_)
LStrip(s) == IF s # <<>> /\ IsSpace(Head(s)) THEN LStrip(Tail(s)) ELSE s
RECURSIVE RStrip(_)
RStrip(s) ==
  IF s # <<>> /\ IsSpace(s[Len(s)]) THEN RStrip(SubSeq(s, 1, Len(s) - 1)) ELSE s
Strip(s) == RStrip(LStrip(s))

StartsWith(s, prefix) ==
  Len(s) >= Len(prefix) /\ SubSeq(s, 1, Len(prefix)) = prefix
EndsWith(s, suffix) ==
  Len(s) >= Len(suffix) /\ SubSeq(s, Len(s) - Len(suffix) + 1, Len(s)) = suffix
Contains(s, c) == \E i \in 1..Len(s) : s[i] = c

(* str.split(sep) for a one-character separator: the list of fields *)
RECURSIVE Split(_, _)
Split(s, c) ==
  IF ~Contains(s, c) THEN <<s>>
  ELSE LET k == CHOOSE i \in 1..Len(s) : s[i] = c /\ \A j \in 1..(i - 1) : s[j] # c
       IN <<SubSeq(s, 1, k - 1)>> \o Split(SubSeq(s, k + 1, Len(s)), c)

(* the order of sorted() on str: lexicographic by code point *)
RECURSIVE StrLess(_, _)
StrLess(a, b) ==
  IF b = <<>> THEN FALSE
  ELSE IF a = <<>> THEN TRUE
  ELSE IF Head(a) # Head(b) THEN Head(a) < Head(b)
  ELSE StrLess(Tail(a), Tail(b))

(* sorted(list): insertion of each element in turn *)
RECURSIVE InsertSorted(_, _)
InsertSorted(x, sorted) ==
  IF sorted = <<>> THEN <<x>>
  ELSE IF StrLess(Head(sorted), x) \/ Head(sorted) = x
         THEN <<Head(sorted)>> \o InsertSorted(x, Tail(sorted))
         ELSE <<x>> \o sorted
RECURSIVE SortedList(_)
SortedList(lst) ==
  IF lst = <<>> THEN <<>>
  ELSE InsertSorted(lst[Len(lst)], SortedList(SubSeq(lst, 1, Len(lst) - 1)))

(* list(a_set): the elements once each, in an order the hash seed decides *)
ListsOf(S) ==
  { l \in [1..Cardinality(S) -> S] : \A i, j \in 1..Cardinality(S) : i # j => l[i] # l[j] }

(* lines 239-254: common_subs[:50] *)
common_subs_50 ==
  <<
    <<119,119,119>>,  \* www
    <<109,97,105,108>>,  \* mail
    <<102,116,112>>,  \* ftp
    <<108,111,99,97,108,104,111,115,116>>,  \* localhost
    <<119,101,98,109,97,105,108>>,  \* webmail
    <<115,109,116,112>>,  \* smtp
    <<112,111,112>>,  \* pop
    <<110,115,49>>,  \* ns1
    <<119,101,98,100,105,115,107>>,  \* webdisk
    <<110,115,50>>,  \* ns2
    <<99,112,97,110,101,108>>,  \* cpanel
    <<119,104,109>>,  \* whm
    <<97,117,116,111,100,105,115,99,111,118,101,114>>,  \* autodiscover
    <<97,117,116,111,99,111,110,102,105,103>>,  \* autoconfig
    <<109>>,  \* m
    <<105,109,97,112>>,  \* imap
    <<116,101,115,116>>,  \* test
    <<110,115>>,  \* ns
    <<98,108,111,103>>,  \* blog
    <<112,111,112,51>>,  \* pop3
    <<100,101,118>>,  \* dev
    <<119,119,119,50>>,  \* www2
    <<97,100,109,105,110>>,  \* admin
    <<102,111,114,117,109>>,  \* forum
    <<110,101,119,115>>,  \* news
    <<118,112,110>>,  \* vpn
    <<110,115,51>>,  \* ns3
    <<109,97,105,108,50>>,  \* mail2
    <<110,101,119>>,  \* new
    <<109,121,115,113,108>>,  \* mysql
    <<111,108,100>>,  \* old
    <<108,105,115,116,115>>,  \* lists
    <<115,117,112,112,111,114,116>>,  \* support
    <<109,111,98,105,108,101>>,  \* mobile
    <<109,120>>,  \* mx
    <<115,116,97,116,105,99>>,  \* static
    <<100,111,99,115>>,  \* docs
    <<98,101,116,97>>,  \* beta
    <<119,101,98,50>>,  \* web2
    <<119,119,119,49>>,  \* www1
    <<97,112,105>>,  \* api
    <<99,100,110>>,  \* cdn
    <<115,116,97,116,115>>,  \* stats
    <<100,110,115,49>>,  \* dns1
    <<119,119,119,51>>,  \* www3
    <<100,110,115>>,  \* dns
    <<97,112,105,50>>,  \* api2
    <<115,101,99,117,114,101>>,  \* secure
    <<116,101,115,116,50>>,  \* test2
    <<110,115,52>>   \* ns4
  >>

(* ------------------------------------------------------------------ *)
(* Bounds                                                              *)
(* ------------------------------------------------------------------ *)
MaxServices == 2
MaxCerts == 1        \* certificates in one crt.sh answer
MaxAmassLines == 1   \* lines in one amass output file
MaxPorts == 1        \* ports in one nmap report, ports that accept a connection
TimeoutValues == {0, 60, 200}
DurationValues == {0, 50, 70}

VARIABLES
  pc,            \* position in orchestrate_scan
  now,           \* time.time() - scan_start_time
  max_wait,      \* int(timeout)
  active_timeout, \* kwargs 'timeout' of active_scan.apply: int(remaining_time), 0 before
  enable,        \* [passive, active, vuln] toggles
  store_cfg,     \* [es, meili]: which index clients are configured
  subdomains, host_to_ip, services,
  timed_out,     \* the local timed_out of orchestrate_scan
  result,        \* the returned dict, NoResult before the return
  raised,        \* TRUE when the task ended by an exception
  log,           \* history: the stages entered, with entry and exit time
  es_indexed, meili_indexed, \* documents handed to each index store
  (* passive_scan *)
  p_pc,          \* position in passive_scan
  p_run,         \* 1 for the first run, 2 for the re-run with the same stubs
  stub,          \* the stubbed sources: [crt, amass, ht, dns]
  p_subdomains,  \* the set `subdomains`
  p_host_to_ip,  \* the dict `host_to_ip`
  p_queried,     \* history: the sources asked so far in this run
  p_tmpfiles,    \* temporary files created and not yet deleted
  p_result,      \* the dict returned by the current run
  p_first,       \* the dict the first run returned
  (* active_scan *)
  a_pc,          \* position in active_scan
  a_hosts,       \* the argument `hosts`
  a_i,           \* index of the host the loop is at
  a_h2ip,        \* the argument host_to_ip
  a_cfg,         \* [port_range, scan_intensity]
  a_now,         \* time.time() - scan_start_time
  a_max_wait,    \* int(timeout)
  a_masscan,     \* masscan_available: "unknown" (None), "yes" or "no"
  a_masscan_used, \* masscan_used of the current host
  a_tool,        \* history: how the masscan step of the current host ended
  a_report,      \* history: the nmap run of the current host
  a_open_ports,  \* open_ports of the current host
  a_services,    \* the list `services`
  a_seen,        \* history: for each record of a_services, what was detected
  a_tmpfiles,    \* temporary files created and not yet deleted
  a_processed,   \* hosts_processed
  a_result,      \* the returned list, NoResult before the return
  (* spiderfoot_scan: the poller and the remote job *)
  s_pc,          \* position in spiderfoot_scan
  s_now,         \* time.time() - scan_start_time
  s_max_wait,    \* int(timeout)
  s_grace,       \* time.time() - grace_start
  scan_finished, \* "unbound" before the first assignment, else TRUE or FALSE
  scan_status,
  entities_found, entities_count, data_points,
  modules_that_ran, \* "unbound" before the first assignment, else a set
  grace_poll_count,
  s_result,      \* the returned dict, NoResult before the return
  sf_events,     \* the remote job: the events it has stored, ROOT first
  sf_status,     \* the remote job: its status
  s_last,        \* history: the result set of the last successful fetch
  s_fetches,     \* history: the number of successful fetches
  s_stops,       \* history: where /stopscan was requested
  s_iter,        \* history: the poll iterations started
  s_terminal,    \* history: a fetched status was FINISHED, ABORTED or ERROR-FAILED
  r_pc,          \* position in start_spiderfoot_scan
  r_request,     \* the ASMScanRequest
  r_exc,         \* the exception raised inside the outer try, NoResult without one
  r_status,      \* the HTTP status of the response, 0 before it
  r_queue,       \* the spiderfoot_scan tasks queued
  h_clock,       \* datetime.now(), in tenths of a second
  hibp_api_key,  \* self.hibp_api_key is set
  last_hibp_request, \* self._last_hibp_request, -1 for None
  h_pc,          \* per caller: idle, sleeping in _rate_limit_hibp, done
  h_wake,        \* per caller: the time its asyncio.sleep ends
  h_requests,    \* history: the start times of the HIBP requests
  threats_db,    \* _threats_db: threat id -> status of the ThreatAlert
  takedown_requests_db, \* _takedown_requests_db, in order of insertion
  t_response,    \* the HTTP status of the last takedown response, 0 before
  t_summary,     \* the body of the last /takedown/summary response, NoResult otherwise
  u_pc,          \* position in verify_token
  u_token,       \* the bearer token: how jwt.decode ends, and its claims
  redis_client,  \* memory_manager.redis_client: configured, answering, and its session keys
  u_payload,     \* the decoded payload, NoResult before
  u_response     \* the HTTP answer, NoResult before

ovars == <<pc, now, max_wait, active_timeout, enable, store_cfg, subdomains, host_to_ip,
           services, timed_out, result, raised, log, es_indexed, meili_indexed>>

pvars == <<p_pc, p_run, stub, p_subdomains, p_host_to_ip, p_queried,
           p_tmpfiles, p_result, p_first>>

avars == <<a_pc, a_hosts, a_i, a_h2ip, a_cfg, a_now, a_max_wait, a_masscan,
           a_masscan_used, a_tool, a_report,
           a_open_ports, a_services, a_seen, a_tmpfiles, a_processed, a_result>>

svars == <<s_pc, s_now, s_max_wait, s_grace, scan_finished, scan_status, entities_found,
           entities_count, data_points, modules_that_ran, grace_poll_count, s_result,
           sf_events, sf_status, s_last, s_fetches, s_stops, s_iter, s_terminal>>

rvars == <<r_pc, r_request, r_exc, r_status, r_queue>>

hvars == <<h_clock, hibp_api_key, last_hibp_request, h_pc, h_wake, h_requests>>

tvars == <<threats_db, takedown_requests_db, t_response, t_summary>>

uvars == <<u_pc, u_token, redis_client, u_payload, u_response>>

xvars == <<rvars, hvars, tvars, uvars>>

vars == <<ovars, pvars, avars, svars, xvars>>

NoResult == [absent |-> TRUE]

(* dict.get(key, default) on a function with a finite domain *)
Get(m, k, default) == IF k \in DOMAIN m THEN m[k] ELSE default

EmptyMap == [k \in {} |-> EmptyStr]

(* ------------------------------------------------------------------ *)
(* What the stages can hand back to orchestrate_scan                   *)
(* ------------------------------------------------------------------ *)
PassiveReturns ==
  { [subdomains |-> <<RootDomain>>, host_to_ip |-> EmptyMap],
    [subdomains |-> <<ApiHost, RootDomain>>, host_to_ip |-> EmptyMap],
    [subdomains |-> <<ApiHost, RootDomain>>, host_to_ip |-> [k \in {ApiHost} |-> PlainIp]],
    [subdomains |-> <<ApiHost, RootDomain, WwwHost>>,
     host_to_ip |-> [k \in {WwwHost} |-> PlainIp2]] }

SeqOfLen(S, n) == [1..n -> S]
SeqsUpTo(S, n) == UNION { SeqOfLen(S, k) : k \in 0..n }

ServiceRecords(hosts) ==
  [hostname : hosts, ip : {PlainIp, PlainIp2}, port : {80, 443}]

(* active_scan walks the hosts in order, so its records are grouped by host
   in the order of the host list *)
IndexOf(seq, x) == CHOOSE i \in 1..Len(seq) : seq[i] = x
Range(seq) == { seq[i] : i \in 1..Len(seq) }
ActiveReturns(hosts) ==
  { s \in SeqsUpTo(ServiceRecords(Range(hosts)), MaxServices) :
      \A i \in 1..Len(s) : \A j \in 1..Len(s) :
         i < j => IndexOf(hosts, s[i].hostname) <= IndexOf(hosts, s[j].hostname) }

(* ------------------------------------------------------------------ *)
(* orchestrate_scan                                                    *)
(* ------------------------------------------------------------------ *)
ScanId == "scan-1"

WarnBeforePassive == "Partial results returned."
WarnBeforeActive == "Passive scan completed, active scan not started."
WarnAfterActive == "Active scan completed, vulnerability scan not started."
WarnBeforeVuln == "Vulnerability scan not started."
NoWarning == ""

(* mutant: the deadline compared against the budget less the 60 s reserve *)
check_timeout_early == [timed_out |-> now >= max_wait - 60, elapsed |-> now]

(* check_timeout(): (elapsed >= max_wait, elapsed) *)
check_timeout == [timed_out |-> now >= max_wait, elapsed |-> now]

(* the dict returned by the four early returns *)
PartialResult(subs, svcs, assets, elapsed, warning) ==
  [subdomains |-> subs, services |-> svcs, vulnerabilities |-> <<>>,
   assets_found |-> assets, services_found |-> Len(svcs),
   vulnerabilities_found |-> 0, timed_out |-> TRUE,
   elapsed_time |-> elapsed, warning |-> warning]

(* the dict returned at the end; it has no 'timed_out' and no 'warning' key *)
FinalResult(subs, svcs, assets, elapsed) ==
  [subdomains |-> subs, services |-> svcs, vulnerabilities |-> <<>>,
   assets_found |-> assets, services_found |-> Len(svcs),
   vulnerabilities_found |-> 0, timed_out |-> FALSE,
   elapsed_time |-> elapsed, warning |-> NoWarning]

(* one history entry per stage entered: entry time, exit time, and whether the
   stage's collaborator succeeded *)
Entered(stage, at, end, ok) == [stage |-> stage, at |-> at, end |-> end, ok |-> ok]

(* orchestrate_scan is not running *)
OrchIdle ==
  /\ pc = "idle"
  /\ now = 0
  /\ max_wait = 0
  /\ active_timeout = 0
  /\ enable = [passive |-> FALSE, active |-> FALSE, vuln |-> FALSE]
  /\ store_cfg = [es |-> FALSE, meili |-> FALSE]
  /\ subdomains = <<>>
  /\ host_to_ip = EmptyMap
  /\ services = <<>>
  /\ timed_out = FALSE
  /\ result = NoResult
  /\ raised = FALSE
  /\ log = <<>>
  /\ es_indexed = <<>>
  /\ meili_indexed = <<>>

(* passive_scan is not running *)
PassiveIdle ==
  /\ p_pc = "idle"
  /\ p_run = 0
  /\ stub = NoResult
  /\ p_subdomains = {}
  /\ p_host_to_ip = EmptyMap
  /\ p_queried = {}
  /\ p_tmpfiles = 0
  /\ p_result = NoResult
  /\ p_first = NoResult

(* active_scan is not running *)
ActiveIdle ==
  /\ a_pc = "idle"
  /\ a_hosts = <<>>
  /\ a_i = 0
  /\ a_h2ip = EmptyMap
  /\ a_cfg = NoResult
  /\ a_now = 0
  /\ a_max_wait = 0
  /\ a_masscan = "unknown"
  /\ a_masscan_used = FALSE
  /\ a_tool = "none"
  /\ a_report = NoResult
  /\ a_open_ports = <<>>
  /\ a_services = <<>>
  /\ a_seen = <<>>
  /\ a_tmpfiles = 0
  /\ a_processed = 0
  /\ a_result = NoResult

(* spiderfoot_scan not running; lines 892-895 and 913-917 *)
SpiderIdle ==
  /\ s_pc = "idle"
  /\ s_now = 0
  /\ s_max_wait = 0
  /\ s_grace = 0
  /\ scan_finished = "unbound"
  /\ scan_status = "UNKNOWN"
  /\ entities_found = <<>>
  /\ entities_count = 0
  /\ data_points = 0
  /\ modules_that_ran = [bound |-> FALSE, names |-> {}]
  /\ grace_poll_count = 0
  /\ s_result = NoResult
  /\ sf_events = <<>>
  /\ sf_status = "RUNNING"
  /\ s_last = [any |-> FALSE, results |-> <<>>, phase |-> "none"]
  /\ s_fetches = 0
  /\ s_stops = <<>>
  /\ s_iter = 0
  /\ s_terminal = FALSE

RouterIdle ==
  /\ r_pc = "idle"
  /\ r_request = NoResult
  /\ r_exc = NoResult
  /\ r_status = 0
  /\ r_queue = <<>>

HibpIdle ==
  /\ h_clock = 0
  /\ hibp_api_key = FALSE
  /\ last_hibp_request = -1
  /\ h_pc = <<>>
  /\ h_wake = <<>>
  /\ h_requests = <<>>

TakedownIdle ==
  /\ threats_db = <<>>
  /\ takedown_requests_db = <<>>
  /\ t_response = 0
  /\ t_summary = NoResult

AuthIdle ==
  /\ u_pc = "idle"
  /\ u_token = NoResult
  /\ redis_client = NoResult
  /\ u_payload = NoResult
  /\ u_response = NoResult

ServicesIdle == RouterIdle /\ HibpIdle /\ TakedownIdle /\ AuthIdle

Init ==
  /\ PassiveIdle
  /\ ActiveIdle
  /\ SpiderIdle
  /\ ServicesIdle
  /\ pc = "start"
  /\ now = 0
  /\ max_wait \in TimeoutValues
  /\ active_timeout = 0
  /\ enable \in [passive : BOOLEAN, active : BOOLEAN, vuln : BOOLEAN]
  /\ store_cfg \in [es : BOOLEAN, meili : BOOLEAN]
  /\ subdomains = <<RootDomain>>
  /\ host_to_ip = EmptyMap
  /\ services = <<>>
  /\ timed_out = FALSE
  /\ result = NoResult
  /\ raised = FALSE
  /\ log = <<>>
  /\ es_indexed = <<>>
  /\ meili_indexed = <<>>

(* lines 1867-1884: the check in front of the passive stage *)
BeforePassive ==
  /\ pc = "start"
  /\ IF enable.passive
       THEN /\ timed_out' = check_timeout.timed_out
            /\ IF check_timeout.timed_out
                 THEN /\ result' = PartialResult(subdomains, <<>>, 0,
                                       check_timeout.elapsed, WarnBeforePassive)
                      /\ pc' = "done"
                 ELSE /\ pc' = "passive"
                      /\ UNCHANGED result
       ELSE /\ pc' = "pre_active"
            /\ UNCHANGED <<timed_out, result>>
  /\ UNCHANGED <<now, max_wait, active_timeout, enable, store_cfg, subdomains, host_to_ip,
                 services, raised, log, es_indexed, meili_indexed>>

(* mutant: the passive stage called outside any try/except *)
RunPassive_NoCatch ==
  /\ pc = "passive"
  /\ \E d \in DurationValues, ok \in BOOLEAN :
       /\ now' = now + d
       /\ log' = Append(log, Entered("passive", now, now + d, ok))
       /\ IF ok
            THEN /\ \E r \in PassiveReturns :
                      /\ subdomains' = r.subdomains
                      /\ host_to_ip' = r.host_to_ip
                 /\ pc' = "pre_active"
                 /\ UNCHANGED raised
            ELSE /\ raised' = TRUE
                 /\ pc' = "done"
                 /\ UNCHANGED <<subdomains, host_to_ip>>
  /\ UNCHANGED <<max_wait, active_timeout, enable, store_cfg, services, timed_out, result,
                 es_indexed, meili_indexed>>

(* lines 1886-1896: passive_scan.apply(), its failure caught and logged *)
RunPassive ==
  /\ pc = "passive"
  /\ \E d \in DurationValues, ok \in BOOLEAN :
       /\ now' = now + d
       /\ log' = Append(log, Entered("passive", now, now + d, ok))
       /\ IF ok                              \* passive_result.successful()
            THEN \E r \in PassiveReturns :
                   /\ subdomains' = r.subdomains
                   /\ host_to_ip' = r.host_to_ip
            ELSE UNCHANGED <<subdomains, host_to_ip>> \* failed result or exception
  /\ pc' = "pre_active"
  /\ UNCHANGED <<max_wait, active_timeout, enable, store_cfg, services, timed_out, result,
                 raised, es_indexed, meili_indexed>>

(* mutant: the active stage entered without the deadline check *)
BeforeActive_NoCheck ==
  /\ pc = "pre_active"
  /\ pc' = IF enable.active /\ subdomains # <<>> THEN "active" ELSE "pre_vuln"
  /\ UNCHANGED <<now, max_wait, active_timeout, enable, store_cfg, subdomains, host_to_ip,
                 services, timed_out, result, raised, log, es_indexed, meili_indexed>>

(* lines 1899-1918: the check in front of the active stage *)
BeforeActive ==
  /\ pc = "pre_active"
  /\ IF enable.active /\ subdomains # <<>>
       THEN /\ timed_out' = check_timeout.timed_out
            /\ IF check_timeout.timed_out
                 THEN /\ result' = PartialResult(subdomains, <<>>, Len(subdomains),
                                       check_timeout.elapsed, WarnBeforeActive)
                      /\ pc' = "done"
                 ELSE /\ pc' = "active"
                      /\ UNCHANGED result
       ELSE /\ pc' = "pre_vuln"
            /\ UNCHANGED <<timed_out, result>>
  /\ UNCHANGED <<now, max_wait, active_timeout, enable, store_cfg, subdomains, host_to_ip,
                 services, raised, log, es_indexed, meili_indexed>>


Max(a, b) == IF a >= b THEN a ELSE b

(* the active stage is handed all the time that is left *)
RemainingTime_NoReserve(timeout, elapsed) == Max(60, timeout - elapsed)

(* line 1923: remaining_time = max(60, max_wait - elapsed - 60) *)
RemainingTime(timeout, elapsed) == Max(60, timeout - elapsed - 60)

(* lines 1920-1939: active_scan.apply(), its failure caught and logged *)
RunActive ==
  /\ pc = "active"
  /\ active_timeout' = RemainingTime(max_wait, now)
  /\ \E d \in DurationValues, ok \in BOOLEAN :
       /\ now' = now + d
       /\ log' = Append(log, Entered("active", now, now + d, ok))
       /\ IF ok                              \* active_result.successful()
            THEN \E r \in ActiveReturns(subdomains) : services' = r
            ELSE UNCHANGED services          \* failed result or exception
  /\ pc' = "post_active"
  /\ UNCHANGED <<max_wait, enable, store_cfg, subdomains, host_to_ip,
                 timed_out, result, raised, es_indexed, meili_indexed>>

(* mutant: the check after the active stage falls through to indexing *)
AfterActive_IndexOnTimeout ==
  /\ pc = "post_active"
  /\ timed_out' = check_timeout.timed_out
  /\ pc' = IF check_timeout.timed_out THEN "index" ELSE "pre_vuln"
  /\ UNCHANGED <<now, max_wait, active_timeout, enable, store_cfg, subdomains, host_to_ip,
                 services, result, raised, log, es_indexed, meili_indexed>>

(* lines 1941-1958: the check after the active stage *)
AfterActive ==
  /\ pc = "post_active"
  /\ timed_out' = check_timeout.timed_out
  /\ IF check_timeout.timed_out
       THEN /\ result' = PartialResult(subdomains, services, Len(subdomains),
                             check_timeout.elapsed, WarnAfterActive)
            /\ pc' = "done"
       ELSE /\ pc' = "pre_vuln"
            /\ UNCHANGED result
  /\ UNCHANGED <<now, max_wait, active_timeout, enable, store_cfg, subdomains, host_to_ip,
                 services, raised, log, es_indexed, meili_indexed>>

(* mutant: the check in front of the vulnerability stage sets timed_out but
   does not return *)
BeforeVuln_NoReturn ==
  /\ pc = "pre_vuln"
  /\ pc' = "index"
  /\ IF enable.vuln /\ subdomains # <<>>
       THEN /\ timed_out' = check_timeout.timed_out
            /\ log' = Append(log, Entered("vuln", now, now, TRUE))
       ELSE UNCHANGED <<timed_out, log>>
  /\ UNCHANGED <<now, max_wait, active_timeout, enable, store_cfg, subdomains, host_to_ip,
                 services, result, raised, es_indexed, meili_indexed>>

(* lines 1960-1981: the check in front of the vulnerability stage; the stage
   itself is empty (Nessus integration removed) *)
BeforeVuln ==
  /\ pc = "pre_vuln"
  /\ IF enable.vuln /\ subdomains # <<>>
       THEN /\ timed_out' = check_timeout.timed_out
            /\ IF check_timeout.timed_out
                 THEN /\ result' = PartialResult(subdomains, services, Len(subdomains),
                                       check_timeout.elapsed, WarnBeforeVuln)
                      /\ pc' = "done"
                      /\ UNCHANGED log
                 ELSE /\ pc' = "index"
                      /\ log' = Append(log, Entered("vuln", now, now, TRUE))
                      /\ UNCHANGED result
       ELSE /\ pc' = "index"
            /\ UNCHANGED <<timed_out, result, log>>
  /\ UNCHANGED <<now, max_wait, active_timeout, enable, store_cfg, subdomains, host_to_ip,
                 services, raised, es_indexed, meili_indexed>>

(* lines 1986-1997: services_by_host, a dict in insertion order *)
RECURSIVE HostsInOrder(_)
HostsInOrder(svcs) ==
  IF svcs = <<>> THEN <<>>
  ELSE LET front == HostsInOrder(SubSeq(svcs, 1, Len(svcs) - 1))
           h == svcs[Len(svcs)].hostname
       IN IF h \in Range(front) THEN front ELSE Append(front, h)

ServicesOfHost(svcs, h) ==
  LET mine == SelectSeq(svcs, LAMBDA r : r.hostname = h)
  IN [i \in 1..Len(mine) |-> [port |-> mine[i].port]]

(* `x or y` on strings: the first operand unless it is empty or None *)
Or(x, y) == IF x # EmptyStr THEN x ELSE y

(* lines 2013-2026: one document per host that has services *)
ServiceDocs(svcs, h2ip) ==
  LET hosts == HostsInOrder(svcs)
  IN [i \in 1..Len(hosts) |->
        [scan_id |-> ScanId,
         hostname |-> hosts[i],
         ip |-> Or(Get(h2ip, hosts[i], EmptyStr), svcs[1].ip),
         services |-> ServicesOfHost(svcs, hosts[i]),
         vulnerabilities |-> <<>>]]

(* lines 2028-2042: placeholder documents for the first 10 subdomains *)
PlaceholderDocs(subs, h2ip) ==
  LET n == IF Len(subs) < 10 THEN Len(subs) ELSE 10
  IN [i \in 1..n |->
        [scan_id |-> ScanId,
         hostname |-> subs[i],
         ip |-> Get(h2ip, subs[i], EmptyStr),
         services |-> <<>>,
         vulnerabilities |-> <<>>]]

Documents(subs, svcs, h2ip) ==
  IF ServiceDocs(svcs, h2ip) # <<>> THEN ServiceDocs(svcs, h2ip)
  ELSE PlaceholderDocs(subs, h2ip)

(* lines 111-120: the flattened Meilisearch form of a document *)
Flat(doc) ==
  [scan_id |-> doc.scan_id, hostname |-> doc.hostname, ip |-> doc.ip,
   services |-> doc.services, vulnerabilities |-> doc.vulnerabilities]

(* lines 92-124, bulk_index_assets: each store is written when its client is
   configured; an error of either client is caught inside the function *)
bulk_index_assets(docs, es_ok, meili_ok) ==
  /\ es_indexed' = IF store_cfg.es /\ es_ok THEN docs ELSE <<>>
  /\ meili_indexed' = IF store_cfg.meili /\ meili_ok
                        THEN [i \in 1..Len(docs) |-> Flat(docs[i])] ELSE <<>>

(* lines 1983-2106: group per host, index, build the final result *)
IndexResults ==
  /\ pc = "index"
  /\ \E d \in DurationValues, es_ok \in BOOLEAN, meili_ok \in BOOLEAN :
       LET documents == Documents(subdomains, services, host_to_ip) IN
       /\ bulk_index_assets(documents, es_ok, meili_ok)
       /\ now' = now + d
       /\ log' = Append(log, Entered("index", now, now + d, es_ok /\ meili_ok))
       /\ result' = FinalResult(subdomains, services, Len(documents), now + d)
  /\ pc' = "done"
  /\ UNCHANGED <<max_wait, active_timeout, enable, store_cfg, subdomains, host_to_ip,
                 services, timed_out, raised>>

Next ==
  \/ BeforePassive /\ UNCHANGED <<pvars, avars, svars, xvars>>
  \/ RunPassive /\ UNCHANGED <<pvars, avars, svars, xvars>>
  \/ BeforeActive /\ UNCHANGED <<pvars, avars, svars, xvars>>
  \/ RunActive /\ UNCHANGED <<pvars, avars, svars, xvars>>
  \/ AfterActive /\ UNCHANGED <<pvars, avars, svars, xvars>>
  \/ BeforeVuln /\ UNCHANGED <<pvars, avars, svars, xvars>>
  \/ IndexResults /\ UNCHANGED <<pvars, avars, svars, xvars>>

Spec == Init /\ [][Next]_vars

(* ================================================================== *)
(* Claims about orchestrate_scan (checked under Spec)                  *)
(* ================================================================== *)
Done == pc = "done"
Stages == { log[i].stage : i \in 1..Len(log) }
Ran(stage) == stage \in Stages
EntryOf(stage) == log[CHOOSE i \in 1..Len(log) : log[i].stage = stage]

(* what each warning text says about the stages *)
WarningStates(w) ==
  CASE w = WarnBeforePassive -> [passive |-> "unstated", next |-> "unstated"]
    [] w = WarnBeforeActive  -> [passive |-> "completed", next |-> "active not started"]
    [] w = WarnAfterActive   -> [passive |-> "unstated", next |-> "vuln not started"]
    [] w = WarnBeforeVuln    -> [passive |-> "unstated", next |-> "vuln not started"]
    [] OTHER                 -> [passive |-> "unstated", next |-> "unstated"]

(* the passive stage was entered in time and finished at or after the deadline *)
PassiveOverran ==
  /\ Ran("passive")
  /\ EntryOf("passive").at < max_wait
  /\ EntryOf("passive").end >= max_wait

(* C1: every returned result with timed_out=true has elapsed_time >= timeout
   (timeout is an int, so max_wait = int(timeout) = timeout). *)
C1_TimedOutImpliesBudgetSpent ==
  (result # NoResult /\ result.timed_out) => result.elapsed_time >= max_wait

C1_Witness ==
  /\ Done /\ result # NoResult /\ result.timed_out
  /\ max_wait > 0 /\ result.elapsed_time > max_wait
  /\ Ran("active")

(* C2: no state (passive, active, vuln, index) is entered once the deadline
   has passed, whatever the toggles are. *)
C2_NeverEntersAfterDeadline ==
  \A i \in 1..Len(log) : log[i].at < max_wait

(* C3: once a deadline check has set timed_out, the run is over: it has
   returned the results produced so far, no stage was entered at or after that
   check, and nothing was indexed. *)
C3_TimedOutStopsTheRun ==
  timed_out =>
    /\ Done
    /\ result # NoResult /\ result.timed_out
    /\ result.subdomains = subdomains
    /\ result.services \in {services, <<>>}
    /\ \A i \in 1..Len(log) : log[i].at < max_wait /\ log[i].end <= result.elapsed_time
    /\ ~Ran("index")
    /\ es_indexed = <<>> /\ meili_indexed = <<>>

C3_Witness ==
  /\ timed_out /\ Done
  /\ Ran("passive") /\ Ran("active") /\ ~Ran("vuln")
  /\ result.services # <<>>

(* C4 (as stated): when the passive stage finishes after the deadline, the
   result has timed_out=true, empty services and vulnerabilities, and a warning
   stating that the passive stage did not complete. *)
C4_PassiveOverrunWarnsIncomplete ==
  (Done /\ PassiveOverran /\ EntryOf("passive").end > max_wait) =>
    /\ result.timed_out
    /\ result.services = <<>>
    /\ result.vulnerabilities = <<>>
    /\ WarningStates(result.warning).passive = "not completed"

(* C4 (amended): when the passive stage finishes at or after the deadline, then
   - with enable_active: timed_out=true, the passive stage's subdomains, empty
     services and vulnerabilities, warning "Passive scan completed, active scan
     not started.";
   - with enable_active off and enable_vuln on: the same, with the warning
     "Vulnerability scan not started.";
   - with both off: no check follows, the run is indexed and returned without
     timed_out and without a warning.
   No warning states that the passive stage did not complete. *)
C4_PassiveOverrunResult ==
  (Done /\ PassiveOverran) =>
    /\ result.subdomains = subdomains
    /\ result.services = <<>>
    /\ result.vulnerabilities = <<>>
    /\ WarningStates(result.warning).passive # "not completed"
    /\ enable.active =>
         result.timed_out /\ result.warning = WarnBeforeActive /\ Stages = {"passive"}
    /\ (~enable.active /\ enable.vuln) =>
         result.timed_out /\ result.warning = WarnBeforeVuln /\ Stages = {"passive"}
    /\ (~enable.active /\ ~enable.vuln) =>
         ~result.timed_out /\ result.warning = NoWarning /\ Ran("index")

C4_Witness ==
  /\ Done /\ PassiveOverran
  /\ max_wait = 60 /\ EntryOf("passive").end = 70
  /\ enable.active
  /\ Len(result.subdomains) > 1
  /\ result.timed_out

(* C5: no failure of passive_scan, active_scan or of an index client ends the
   run by an exception: the run returns a result; a failed passive stage leaves
   the root domain only, a failed active stage leaves no services. *)
C5_FailuresNeverAbort ==
  Done =>
    /\ ~raised
    /\ result # NoResult
    /\ (Ran("passive") /\ ~EntryOf("passive").ok) => result.subdomains = <<RootDomain>>
    /\ (Ran("active") /\ ~EntryOf("active").ok) => result.services = <<>>
    /\ Ran("index") => (~result.timed_out /\ result.assets_found >= 1)

C5_Witness ==
  /\ Done /\ result # NoResult
  /\ Ran("passive") /\ ~EntryOf("passive").ok
  /\ Ran("active") /\ ~EntryOf("active").ok
  /\ Ran("index") /\ ~EntryOf("index").ok
  /\ store_cfg.es /\ store_cfg.meili

(* C6 (as stated): when time runs out before all enabled stages have run, the
   partial results are still grouped per host and written to the index stores
   before the return. *)
C6_PartialResultsIndexed ==
  (Done /\ timed_out) => Ran("index")

(* C6 (amended): when a deadline check finds that time has run out, the run
   returns the partial results at once, without grouping or indexing them;
   results are indexed exactly on the runs in which no deadline check fired,
   and then every configured store whose client succeeds receives one document
   per host. *)
C6_IndexedOnlyWithoutTimeout ==
  Done =>
    /\ timed_out <=> ~Ran("index")
    /\ timed_out => (es_indexed = <<>> /\ meili_indexed = <<>>)
    /\ (Ran("index") /\ EntryOf("index").ok /\ store_cfg.es) =>
         es_indexed = Documents(subdomains, services, host_to_ip)
    /\ (Ran("index") /\ EntryOf("index").ok /\ store_cfg.meili) =>
         Len(meili_indexed) = result.assets_found

C6_Witness ==
  /\ Done /\ timed_out
  /\ store_cfg.es /\ store_cfg.meili
  /\ result.services # <<>>
  /\ es_indexed = <<>> /\ meili_indexed = <<>>

(* ================================================================== *)
(* passive_scan                                                        *)
(* ================================================================== *)
IpText == PlainIp
EvilHost == Www \o Dot \o OtherDomain                      \* "www.evil.com"
NoCommaText == <<101,114,114,111,114>>                     \* "error"

(* name_value fields a stubbed crt.sh answer can hold *)
CertUniverse ==
  { [name_value |-> WwwHost \o Newline \o ApiHost],
    [name_value |-> Wild \o RootDomain],
    [name_value |-> Blank \o ApiUpper \o Dot \o RootDomain \o Blank],
    [name_value |-> EvilHost],
    [name_value |-> EmptyStr] }

(* crt.sh: the request raises, answers with a non-200 status, or answers 200
   with a JSON list of certificates *)
CrtResponses ==
  { [kind |-> "error", data |-> <<>>], [kind |-> "status", data |-> <<>>] }
  \cup { [kind |-> "ok", data |-> d] : d \in SeqsUpTo(CertUniverse, MaxCerts) }

(* lines of the amass output file: a JSON object or an undecodable line *)
AmassUniverse ==
  { [json |-> TRUE, name |-> ApiHost, addresses |-> <<PlainIp>>],
    [json |-> TRUE, name |-> <<77>> \o Tail(MailHost), addresses |-> <<PlainIp, PlainIp2>>],
    [json |-> TRUE, name |-> OtherDomain, addresses |-> <<>>],
    [json |-> FALSE, name |-> EmptyStr, addresses |-> <<>>] }

(* amass: binary missing, timeout, non-zero exit code, or exit code 0 *)
AmassRuns ==
  { [kind |-> k, lines |-> <<>>] : k \in {"notfound", "timeout", "nonzero"} }
  \cup { [kind |-> "ok", lines |-> l] : l \in SeqsUpTo(AmassUniverse, MaxAmassLines) }

(* HackerTarget: the request raises, a non-200 status, or 200 with a text *)
HtTexts ==
  { ApiHost \o Comma \o IpText \o Newline \o MailHost \o Comma \o IpText,
    Lower(Www) \o Dot \o <<69>> \o Tail(RootDomain) \o Comma \o IpText \o Newline,
    EvilHost \o Comma \o IpText,
    NoCommaText,
    EmptyStr }
HtResponses ==
  { [kind |-> "error", text |-> EmptyStr], [kind |-> "status", text |-> EmptyStr] }
  \cup { [kind |-> "ok", text |-> t] : t \in HtTexts }

(* DNS: the resolver module cannot be imported, or each candidate resolves to
   a list of addresses (none: NXDOMAIN, NoAnswer or Timeout) *)
DnsStubs ==
  { [kind |-> "importerror", answers |-> EmptyMap] }
  \cup { [kind |-> "ok", answers |-> [l \in L |-> <<PlainIp2>>]] : L \in SUBSET {Www, Mail} }

Sources == {"crt", "amass", "ht", "dns"}

(* line 161 / 224: the name is the target or one of its subdomains *)
IsUnder(name, domain) == EndsWith(name, Dot \o domain) \/ name = domain

(* lines 155-163: the names one certificate contributes *)
CertNames(cert, domain) ==
  IF cert.name_value = EmptyStr THEN {}
  ELSE LET parts == Split(cert.name_value, 10)
           clean(x) == LET y == Lower(Strip(x))
                       IN IF StartsWith(y, Wild) THEN SubSeq(y, 3, Len(y)) ELSE y
       IN { n \in { clean(parts[i]) : i \in 1..Len(parts) } : IsUnder(n, domain) }

(* lines 146-168: Certificate Transparency *)
CrtNames(resp, domain) ==
  IF resp.kind = "ok"
    THEN UNION { CertNames(resp.data[i], domain) : i \in 1..Len(resp.data) }
    ELSE {}

(* lines 186-200: amass; the names are lower-cased and not compared with the
   target *)
AmassNames(run) ==
  IF run.kind = "ok"
    THEN { Lower(run.lines[i].name) :
             i \in { j \in 1..Len(run.lines) :
                       run.lines[j].json /\ run.lines[j].name # EmptyStr } }
    ELSE {}

(* lines 195-198: host_to_ip[data['name']] = addr['ip'], the last address of
   the last line that names the host *)
RECURSIVE AmassIps(_, _)
AmassIps(lines, h2ip) ==
  IF lines = <<>> THEN h2ip
  ELSE LET l == Head(lines)
           upd == IF l.json /\ l.name # EmptyStr /\ l.addresses # <<>>
                    THEN [k \in DOMAIN h2ip \cup {l.name} |->
                            IF k = l.name THEN l.addresses[Len(l.addresses)]
                            ELSE h2ip[k]]
                    ELSE h2ip
       IN AmassIps(Tail(lines), upd)

(* lines 219-226: HackerTarget, one "host,ip" per line *)
HtNames(resp, domain) ==
  IF resp.kind = "ok" /\ resp.text # EmptyStr /\ Strip(resp.text) # EmptyStr
    THEN LET lines == Split(Strip(resp.text), 10)
             host(l) == Lower(Strip(Split(l, 44)[1]))
         IN { host(lines[i]) :
                i \in { j \in 1..Len(lines) :
                          /\ Contains(lines[j], 44)
                          /\ Strip(lines[j]) # EmptyStr
                          /\ IsUnder(host(lines[j]), domain) } }
    ELSE {}

(* lines 254-266: DNS brute force over common_subs[:50] *)
Resolved(dns) ==
  { i \in 1..Len(common_subs_50) :
      Get(dns.answers, common_subs_50[i], <<>>) # <<>> }
DnsNames(dns, domain) ==
  IF dns.kind = "ok"
    THEN { common_subs_50[i] \o Dot \o domain : i \in Resolved(dns) }
    ELSE {}
DnsIps(dns, domain, h2ip) ==
  LET found == DnsNames(dns, domain)
      label(n) == SubSeq(n, 1, Len(n) - Len(domain) - 1)
  IN [k \in DOMAIN h2ip \cup found |->
        IF k \in found
          THEN LET a == dns.answers[label(k)] IN a[Len(a)]
          ELSE h2ip[k]]

InitPassive ==
  /\ p_pc = "crt"
  /\ p_run = 1
  /\ stub \in [crt : CrtResponses, amass : AmassRuns, ht : HtResponses, dns : DnsStubs]
  /\ p_subdomains = {}
  /\ p_host_to_ip = EmptyMap
  /\ p_queried = {}
  /\ p_tmpfiles = 0
  /\ p_result = NoResult
  /\ p_first = NoResult
  /\ OrchIdle
  /\ ActiveIdle
  /\ SpiderIdle
  /\ ServicesIdle

(* mutant: Method 1 without its try/except, a failed request ends the task *)
CrtSource_NoCatch ==
  /\ p_pc = "crt"
  /\ p_queried' = p_queried \cup {"crt"}
  /\ p_subdomains' = p_subdomains \cup CrtNames(stub.crt, RootDomain)
  /\ p_pc' = IF stub.crt.kind = "error" THEN "done" ELSE "amass"
  /\ UNCHANGED <<p_run, stub, p_host_to_ip, p_tmpfiles, p_result, p_first>>

(* lines 137-171, Method 1: any exception is caught and logged *)
CrtSource ==
  /\ p_pc = "crt"
  /\ p_queried' = p_queried \cup {"crt"}
  /\ p_subdomains' = p_subdomains \cup CrtNames(stub.crt, RootDomain)
  /\ p_pc' = "amass"
  /\ UNCHANGED <<p_run, stub, p_host_to_ip, p_tmpfiles, p_result, p_first>>

(* lines 173-213, Method 2: the temporary file is unlinked only in the branch
   of exit code 0 *)
AmassSource ==
  /\ p_pc = "amass"
  /\ p_queried' = p_queried \cup {"amass"}
  /\ p_subdomains' = p_subdomains \cup AmassNames(stub.amass)
  /\ p_host_to_ip' = IF stub.amass.kind = "ok"
                       THEN AmassIps(stub.amass.lines, p_host_to_ip)
                       ELSE p_host_to_ip
  /\ p_tmpfiles' = IF stub.amass.kind = "ok" THEN p_tmpfiles ELSE p_tmpfiles + 1
  /\ p_pc' = "ht"
  /\ UNCHANGED <<p_run, stub, p_result, p_first>>

(* mutant: Method 3 assigns its names instead of adding them *)
HtSource_Overwrite ==
  /\ p_pc = "ht"
  /\ p_queried' = p_queried \cup {"ht"}
  /\ p_subdomains' = HtNames(stub.ht, RootDomain)
  /\ p_pc' = "dns"
  /\ UNCHANGED <<p_run, stub, p_host_to_ip, p_tmpfiles, p_result, p_first>>

(* lines 215-231, Method 3 *)
HtSource ==
  /\ p_pc = "ht"
  /\ p_queried' = p_queried \cup {"ht"}
  /\ p_subdomains' = p_subdomains \cup HtNames(stub.ht, RootDomain)
  /\ p_pc' = "dns"
  /\ UNCHANGED <<p_run, stub, p_host_to_ip, p_tmpfiles, p_result, p_first>>

(* lines 233-271, Method 4 *)
DnsSource ==
  /\ p_pc = "dns"
  /\ p_queried' = p_queried \cup {"dns"}
  /\ p_subdomains' = p_subdomains \cup DnsNames(stub.dns, RootDomain)
  /\ p_host_to_ip' = DnsIps(stub.dns, RootDomain, p_host_to_ip)
  /\ p_pc' = "finish"
  /\ UNCHANGED <<p_run, stub, p_tmpfiles, p_result, p_first>>

(* mutant: list(subdomains) returned without sorted() *)
Finish_Unsorted ==
  /\ p_pc = "finish"
  /\ p_subdomains' = p_subdomains \cup {RootDomain}
  /\ \E lst \in ListsOf(p_subdomains \cup {RootDomain}) :
       p_result' = [subdomains |-> lst, host_to_ip |-> p_host_to_ip]
  /\ p_pc' = "done"
  /\ UNCHANGED <<p_run, stub, p_host_to_ip, p_queried, p_tmpfiles, p_first>>

(* lines 273-296: add the root, sorted(list(subdomains)), return *)
Finish ==
  /\ p_pc = "finish"
  /\ p_subdomains' = p_subdomains \cup {RootDomain}
  /\ \E lst \in ListsOf(p_subdomains \cup {RootDomain}) :
       p_result' = [subdomains |-> SortedList(lst), host_to_ip |-> p_host_to_ip]
  /\ p_pc' = "done"
  /\ UNCHANGED <<p_run, stub, p_host_to_ip, p_queried, p_tmpfiles, p_first>>

(* the task is called once more, for the same domain, against the same stubs *)
Rerun ==
  /\ p_pc = "done"
  /\ p_run = 1
  /\ p_run' = 2
  /\ p_first' = p_result
  /\ p_pc' = "crt"
  /\ p_subdomains' = {}
  /\ p_host_to_ip' = EmptyMap
  /\ p_queried' = {}
  /\ p_result' = NoResult
  /\ UNCHANGED <<stub, p_tmpfiles>>

NextPassive ==
  \/ CrtSource /\ UNCHANGED <<ovars, avars, svars, xvars>>
  \/ AmassSource /\ UNCHANGED <<ovars, avars, svars, xvars>>
  \/ HtSource /\ UNCHANGED <<ovars, avars, svars, xvars>>
  \/ DnsSource /\ UNCHANGED <<ovars, avars, svars, xvars>>
  \/ Finish /\ UNCHANGED <<ovars, avars, svars, xvars>>
  \/ Rerun /\ UNCHANGED <<ovars, avars, svars, xvars>>

SpecPassive == InitPassive /\ [][NextPassive]_vars

(* ================================================================== *)
(* Claims about passive_scan (checked under SpecPassive)               *)
(* ================================================================== *)
PassiveDone == p_pc = "done"

Succeeded(s) == stub[s].kind = "ok"

(* the host names source s hands to passive_scan *)
Contribution(s) ==
  CASE s = "crt"   -> CrtNames(stub.crt, RootDomain)
    [] s = "amass" -> AmassNames(stub.amass)
    [] s = "ht"    -> HtNames(stub.ht, RootDomain)
    [] s = "dns"   -> DnsNames(stub.dns, RootDomain)

StrictlySorted(lst) ==
  \A i \in 1..Len(lst) : \A j \in 1..Len(lst) : i < j => StrLess(lst[i], lst[j])

(* source A = {www, api} through crt.sh, source B = {api, mail} through
   HackerTarget, nothing from amass and DNS *)
ExampleStubs ==
  /\ stub.crt = [kind |-> "ok", data |-> <<[name_value |-> WwwHost \o Newline \o ApiHost]>>]
  /\ stub.ht = [kind |-> "ok",
                text |-> ApiHost \o Comma \o IpText \o Newline \o MailHost \o Comma \o IpText]
  /\ stub.amass.kind = "notfound"
  /\ stub.dns.kind = "importerror"

(* C7: the returned list is strictly ascending (sorted, no duplicate) and its
   elements are exactly the root domain and the names its four sources
   contributed; for the example sources it is api, example.com, mail, www. *)
C7_SortedUnionWithRoot ==
  PassiveDone =>
    /\ StrictlySorted(p_result.subdomains)
    /\ Range(p_result.subdomains) =
         {RootDomain} \cup UNION { Contribution(s) : s \in Sources }
    /\ ExampleStubs => p_result.subdomains = <<ApiHost, RootDomain, MailHost, WwwHost>>

C7_Witness ==
  /\ PassiveDone /\ p_run = 1
  /\ ExampleStubs
  /\ Range(p_result.subdomains) = {RootDomain, WwwHost, ApiHost, MailHost}

(* C8: whatever subset of the four sources fails, all four are asked, and the
   names of those that succeeded are in the result. *)
C8_FailedSourceDoesNotStopOthers ==
  PassiveDone =>
    /\ p_queried = Sources
    /\ p_result # NoResult
    /\ \A s \in Sources : Succeeded(s) => Contribution(s) \subseteq Range(p_result.subdomains)

C8_Witness ==
  /\ PassiveDone
  /\ stub.crt.kind = "error" /\ stub.amass.kind = "timeout" /\ stub.dns.kind = "importerror"
  /\ Succeeded("ht")
  /\ Contribution("ht") = {ApiHost, MailHost}
  /\ {ApiHost, MailHost} \subseteq Range(p_result.subdomains)

(* C9: the re-run against the same stubs returns the same subdomain list, in
   the same order, whatever order the set is iterated in. *)
C9_RerunSameList ==
  (PassiveDone /\ p_run = 2) => p_result.subdomains = p_first.subdomains

C9_Witness ==
  /\ PassiveDone /\ p_run = 2
  /\ Len(p_result.subdomains) >= 4
  /\ p_result.subdomains = p_first.subdomains

(* ================================================================== *)
(* active_scan                                                         *)
(* ================================================================== *)

(* int(p) of a string of decimal digits; -1 stands for ValueError *)
IsDigits(str) == str # <<>> /\ \A i \in 1..Len(str) : str[i] >= 48 /\ str[i] <= 57
RECURSIVE DigitsValue(_)
DigitsValue(str) ==
  IF str = <<>> THEN 0
  ELSE 10 * DigitsValue(SubSeq(str, 1, Len(str) - 1)) + (str[Len(str)] - 48)
ParseInt(str) == IF IsDigits(str) THEN DigitsValue(str) ELSE -1

(* lines 318-331: (a, b, c, d, prefix_len) *)
cloudflare_ranges ==
  << <<104, 16, 0, 0, 12>>, <<172, 64, 0, 0, 13>>, <<173, 245, 48, 0, 20>>,
     <<103, 21, 244, 0, 22>>, <<141, 101, 64, 0, 18>>, <<108, 162, 192, 0, 18>>,
     <<190, 93, 240, 0, 20>>, <<188, 114, 96, 0, 20>>, <<197, 234, 240, 0, 22>>,
     <<198, 41, 128, 0, 17>>, <<162, 158, 0, 0, 15>>, <<131, 0, 72, 0, 22>> >>

Pow2(n) == IF n = 0 THEN 1 ELSE 2 ^ n

(* lines 341-348: (ip_int & mask) == (base_int & mask) for the /prefix mask.
   The 32-bit values are compared as their upper and lower 16 bits, which is
   the same comparison within 32-bit signed integers. *)
InRange(q, r) ==
  LET hi(x) == x[1] * 256 + x[2]
      lo(x) == x[3] * 256 + x[4]
      prefix == r[5]
  IN IF prefix <= 16
       THEN hi(q) \div Pow2(16 - prefix) = hi(r) \div Pow2(16 - prefix)
       ELSE /\ hi(q) = hi(r)
            /\ lo(q) \div Pow2(32 - prefix) = lo(r) \div Pow2(32 - prefix)

(* lines 310-353 *)
is_cdn_ip(ip) ==
  IF ip = EmptyStr THEN FALSE
  ELSE LET parts == Split(ip, 46)
       IN IF Len(parts) # 4 THEN FALSE
          ELSE IF \E i \in 1..4 : ParseInt(parts[i]) = -1 THEN FALSE
          ELSE LET q == [i \in 1..4 |-> ParseInt(parts[i])]
               IN \E k \in 1..Len(cloudflare_ranges) : InRange(q, cloudflare_ranges[k])

(* str(n) for n >= 0 *)
RECURSIVE IntToStr(_)
IntToStr(n) == IF n < 10 THEN <<48 + n>> ELSE IntToStr(n \div 10) \o <<48 + (n % 10)>>

(* line 521: the sort key, int(x) if x.isdigit() else 99999; on a list of
   digit strings it is the int(p) of line 517 *)
PortKey(q) == IF IsDigits(q) THEN ParseInt(q) ELSE 99999

(* sorted(lst, key): a stable insertion sort on the key *)
RECURSIVE InsertByKey(_, _)
InsertByKey(x, sorted) ==
  IF sorted = <<>> THEN <<x>>
  ELSE IF PortKey(Head(sorted)) <= PortKey(x)
         THEN <<Head(sorted)>> \o InsertByKey(x, Tail(sorted))
         ELSE <<x>> \o sorted
RECURSIVE SortByKey(_)
SortByKey(lst) ==
  IF lst = <<>> THEN <<>>
  ELSE InsertByKey(lst[Len(lst)], SortByKey(SubSeq(lst, 1, Len(lst) - 1)))

(* lines 515-521 (and 466-472): ports sorted numerically and written back with
   str(int(p)); when a port is no number the strings are sorted by the key *)
SortPorts(ports) ==
  IF \A i \in 1..Len(ports) : IsDigits(ports[i])
    THEN LET sorted == SortByKey(ports)
         IN [i \in 1..Len(sorted) |-> IntToStr(ParseInt(sorted[i]))]
    ELSE SortByKey(ports)

(* line 512 (and 500) *)
NormalPorts ==
  << <<50,49>>, <<50,50>>, <<50,53>>, <<53,51>>, <<56,48>>, <<49,49,48>>, <<49,52,51>>, <<52,52,51>>, <<57,57,51>>, <<57,57,53>>, <<51,51,48,54>>, <<51,51,56,57>>, <<53,52,51,50>>, <<56,48,56,48>> >>
(* line 506 *)
AggressivePorts ==
  << <<50,49>>, <<50,50>>, <<50,53>>, <<53,51>>, <<56,48>>, <<49,49,48>>, <<49,52,51>>, <<52,52,51>>, <<57,57,51>>, <<57,57,53>>, <<49,55,50,51>>, <<51,51,48,54>>, <<51,51,56,57>>, <<53,52,51,50>>, <<53,57,48,48>>, <<54,51,55,57>>, <<56,48,56,48>>, <<57,50,48,48>>, <<50,55,48,49,55>> >>
(* line 509 *)
IntensivePorts ==
  << <<50,49>>, <<50,50>>, <<50,53>>, <<53,51>>, <<56,48>>, <<49,49,48>>, <<49,52,51>>, <<52,52,51>>, <<57,57,51>>, <<57,57,53>>, <<49,55,50,51>>, <<51,51,48,54>>, <<51,51,56,57>>, <<53,52,51,50>>, <<53,57,48,48>>, <<56,48,56,48>> >>

(* line 524 *)
DefaultPorts == << <<56,48>>, <<52,52,51>> >>                 \* ['80', '443']

Port22 == <<50,50>>                                       \* "22"
Port8080 == <<56,48,56,48>>                               \* "8080"
Port9999 == <<57,57,57,57>>                               \* "9999"

(* lines 490-512: the candidate ports when masscan gave none *)
FallbackPorts(cfg) ==
  IF cfg.port_range # EmptyStr
    THEN IF Contains(cfg.port_range, 44)
           THEN LET parts == Split(cfg.port_range, 44)
                IN SelectSeq([i \in 1..Len(parts) |-> Strip(parts[i])],
                             LAMBDA q : q # EmptyStr)
           ELSE IF Contains(cfg.port_range, 45) THEN NormalPorts
           ELSE <<Strip(cfg.port_range)>>
    ELSE IF cfg.scan_intensity = "aggressive" THEN AggressivePorts
    ELSE IF cfg.scan_intensity = "intensive" THEN IntensivePorts
    ELSE NormalPorts

(* nmap port states *)
StOpen == <<111,112,101,110>>                             \* "open"
StOpenFiltered == StOpen \o <<124,102,105,108,116,101,114,101,100>> \* "open|filtered"
StFiltered == <<102,105,108,116,101,114,101,100>>         \* "filtered"
Nginx == <<110,103,105,110,120>>                          \* "nginx"
Space == <<32>>

(* <service> elements of an nmap report; present = FALSE: no element *)
ServiceUniverse ==
  { [present |-> FALSE, name |-> "unknown", version |-> EmptyStr, product |-> EmptyStr, method |-> ""],
    [present |-> TRUE, name |-> "unknown", version |-> EmptyStr, product |-> EmptyStr, method |-> "table"],
    [present |-> TRUE, name |-> "ssh", version |-> EmptyStr, product |-> EmptyStr, method |-> "table"],
    [present |-> TRUE, name |-> "unknown", version |-> EmptyStr, product |-> Nginx, method |-> "probed"] }

PortElems ==
  [portid : {Port8080, Port9999},
   state : {StOpen, StOpenFiltered, StFiltered},
   service : ServiceUniverse]

(* lines 564-569: the attributes with their defaults *)
ServiceAttrs(elem) ==
  IF elem.service.present
    THEN [name |-> elem.service.name,
          version_info |-> Strip(elem.service.product \o Space \o elem.service.version),
          method |-> elem.service.method]
    ELSE [name |-> "unknown", version_info |-> Strip(EmptyStr \o Space \o EmptyStr), method |-> ""]

WebPorts == {80, 443, 8080, 8443}

(* 8080 and the other web ports filtered like any other port *)
KeepPort_NoWebPorts(elem, ip) ==
  LET st == Lower(elem.state)
      at == ServiceAttrs(elem)
  IN /\ st \in {StOpen, StOpenFiltered}
     /\ ~( /\ st = StOpenFiltered
           /\ is_cdn_ip(ip)
           /\ at.name = "unknown" /\ at.version_info = EmptyStr /\ at.method = "table" )

(* lines 559-587: TRUE when the port element gives a service record *)
KeepPort(elem, ip) ==
  LET st == Lower(elem.state)
      at == ServiceAttrs(elem)
      is_web_port == ParseInt(elem.portid) \in WebPorts
      cdn_check == is_cdn_ip(ip)
  IN /\ st \in {StOpen, StOpenFiltered}
     /\ ~( /\ st = StOpenFiltered
           /\ ~is_web_port
           /\ cdn_check
           /\ at.name = "unknown" /\ at.version_info = EmptyStr /\ at.method = "table" )

(* lines 592-599 *)
ServiceRecord(host, ip, elem) ==
  [hostname |-> host, ip |-> ip, port |-> ParseInt(elem.portid), protocol |-> "tcp",
   name |-> ServiceAttrs(elem).name,
   version |-> IF ServiceAttrs(elem).version_info # EmptyStr
                 THEN ServiceAttrs(elem).version_info ELSE <<117,110,107,110,111,119,110>>]

(* what was detected for an emitted record *)
Seen(via, ip, elem) ==
  [via |-> via, state |-> Lower(elem.state), port |-> ParseInt(elem.portid),
   cdn |-> is_cdn_ip(ip), name |-> ServiceAttrs(elem).name,
   version_info |-> ServiceAttrs(elem).version_info, method |-> ServiceAttrs(elem).method]

(* lines 610-616: port_service_map.get(port, 'unknown') *)
port_service_map(port) ==
  CASE port = 21 -> "ftp"
    [] port = 22 -> "ssh"
    [] port = 25 -> "smtp"
    [] port = 53 -> "domain"
    [] port = 80 -> "http"
    [] port = 110 -> "pop3"
    [] port = 143 -> "imap"
    [] port = 443 -> "https"
    [] port = 993 -> "imaps"
    [] port = 995 -> "pop3s"
    [] port = 1723 -> "pptp"
    [] port = 3306 -> "mysql"
    [] port = 3389 -> "ms-wbt-server"
    [] port = 5432 -> "postgresql"
    [] port = 5900 -> "vnc"
    [] port = 6379 -> "redis"
    [] port = 8080 -> "http-proxy"
    [] port = 9200 -> "elasticsearch"
    [] port = 27017 -> "mongodb"
    [] OTHER -> "unknown"

MasscanCap == 300      \* line 444: min(timeout, 300)
NmapTimeout == 300     \* line 541
VersionCheckTimeout == 5   \* line 395
SocketTimeout == 2     \* line 632

Min(a, b) == IF a < b THEN a ELSE b

(* a hanging tool is waited for without a limit *)
RunTime_NoTimeout(run, d, limit) == IF run.kind = "timeout" THEN 3 * NmapTimeout ELSE d

(* lines 440-445, 537-542: the time subprocess.run(..., timeout=limit) takes
   for a run of duration d; TimeoutExpired is raised at the limit *)
RunTime(run, d, limit) == IF run.kind = "timeout" THEN limit ELSE d

HostLists == { <<>>, <<ApiHost>>, <<ApiHost, RootDomain>> }
ActiveCfgs ==
  { [port_range |-> EmptyStr, scan_intensity |-> "normal"],
    [port_range |-> EmptyStr, scan_intensity |-> "aggressive"],
    [port_range |-> Port9999 \o Comma \o Blank \o Port8080, scan_intensity |-> "light"],
    [port_range |-> Port9999, scan_intensity |-> "normal"] }

(* the ports on which a stubbed host can accept a TCP connection *)
ListeningPorts == {22, 8080, 9999}

(* masscan: exit code 0 with the ports of its JSON lines, a non-zero exit code,
   an exception (PermissionError, ...) or TimeoutExpired *)
MasscanRuns ==
  { [kind |-> k, ports |-> <<>>] : k \in {"nonzero", "error", "timeout"} }
  \cup { [kind |-> "ok", ports |-> q] : q \in SeqsUpTo({Port22, Port9999}, MaxPorts) }

(* the address nmap reports for a target: the target when it is an address,
   else the address the stubbed resolver gives *)
ReportedAddr(tip) == IF Contains(tip, 46) /\ ParseInt(Split(tip, 46)[1]) # -1 THEN tip ELSE PlainIp

(* nmap: exit code 0 with a report (the address of the host and its ports), a
   non-zero exit code, or an exception (not installed, parse error) or
   TimeoutExpired *)
PortLists == SeqsUpTo(PortElems, MaxPorts)
NmapRuns(tip) ==
  { [kind |-> k, addr |-> EmptyStr, ports |-> <<>>] : k \in {"nonzero", "error", "timeout"} }
  \cup { [kind |-> "ok", addr |-> ReportedAddr(tip), ports |-> q] : q \in PortLists }

ActiveDurations == {0, 70}

InitActive ==
  /\ a_pc = "start"
  /\ a_hosts \in HostLists
  /\ a_i = 0
  /\ a_h2ip \in { EmptyMap, [k \in {ApiHost} |-> CdnIp] }
  /\ a_cfg \in ActiveCfgs
  /\ a_now = 0
  /\ a_max_wait \in TimeoutValues
  /\ a_masscan = "unknown"
  /\ a_masscan_used = FALSE
  /\ a_tool = "none"
  /\ a_report = NoResult
  /\ a_open_ports = <<>>
  /\ a_services = <<>>
  /\ a_seen = <<>>
  /\ a_tmpfiles = 0
  /\ a_processed = 0
  /\ a_result = NoResult
  /\ OrchIdle
  /\ PassiveIdle
  /\ SpiderIdle
  /\ ServicesIdle

(* lines 355-369 *)
ActiveEntry ==
  /\ a_pc = "start"
  /\ IF a_hosts = <<>>
       THEN a_result' = <<>> /\ a_pc' = "done" /\ UNCHANGED a_i
       ELSE a_i' = 1 /\ a_pc' = "check" /\ UNCHANGED a_result
  /\ UNCHANGED <<a_hosts, a_h2ip, a_cfg, a_now, a_max_wait, a_masscan, a_masscan_used,
                 a_tool, a_report, a_open_ports, a_services, a_seen, a_tmpfiles,
                 a_processed>>

(* the deadline check of lines 370-375 left out *)
CheckHost_NoCheck ==
  /\ a_pc = "check"
  /\ a_pc' = "ports" /\ a_open_ports' = <<>> /\ a_masscan_used' = FALSE
  /\ UNCHANGED <<a_hosts, a_i, a_h2ip, a_cfg, a_now, a_max_wait, a_masscan, a_tool,
                 a_report, a_services, a_seen, a_tmpfiles, a_processed, a_result>>

(* lines 370-380: the deadline check in front of each host, open_ports = [],
   masscan_used = False *)
CheckHost ==
  /\ a_pc = "check"
  /\ IF a_now >= a_max_wait
       THEN a_result' = a_services /\ a_pc' = "done"
            /\ UNCHANGED <<a_open_ports, a_masscan_used>>
       ELSE a_pc' = "ports" /\ a_open_ports' = <<>> /\ a_masscan_used' = FALSE
            /\ UNCHANGED a_result
  /\ UNCHANGED <<a_hosts, a_i, a_h2ip, a_cfg, a_now, a_max_wait, a_masscan, a_tool,
                 a_report, a_services, a_seen, a_tmpfiles, a_processed>>

target_ip == Get(a_h2ip, a_hosts[a_i], a_hosts[a_i])

(* lines 514-524: the final sort of open_ports and the default ['80', '443'] *)
FinalPorts(ports) == IF SortPorts(ports) # <<>> THEN SortPorts(ports) ELSE DefaultPorts

(* lines 490-524 for each configuration: the ports used without masscan *)
CandidatePorts == [c \in ActiveCfgs |-> FinalPorts(FallbackPorts(c))]

(* lines 383-410: the cached probe for masscan. "yes": found and `--version`
   exits 0; "no": not in PATH or not executable; "hung": `--version` runs
   into its timeout of line 395 *)
MasscanProbes == {"yes", "no", "hung"}

(* how the masscan step of a host ended: no masscan, or the kind of its run,
   an exit code 0 split into ports found and nothing found *)
ToolOutcome(avail, run) ==
  IF avail # "yes" THEN "absent"
  ELSE IF run.kind # "ok" THEN run.kind
  ELSE IF run.ports = <<>> THEN "empty" ELSE "found"

(* lines 447-473 and 490-524: masscan_used and open_ports after the masscan
   step; masscan_used is set only when the sweep listed a port *)
MasscanOutcome(avail, run, cfg) ==
  LET used == avail = "yes" /\ run.kind = "ok" /\ run.ports # <<>>
  IN [masscan_used |-> used,
      open_ports |-> IF used THEN FinalPorts(SortPorts(run.ports)) ELSE CandidatePorts[cfg]]

NoRun == [kind |-> "none", ports |-> <<>>]

(* lines 378-524: masscan when it is available, else the candidate list *)
DiscoverPorts ==
  /\ a_pc = "ports"
  /\ \E probe \in (IF a_masscan = "unknown" THEN MasscanProbes ELSE {a_masscan}) :
       LET avail == IF probe = "yes" THEN "yes" ELSE "no"
           probed == IF probe = "hung" THEN VersionCheckTimeout ELSE 0
       IN /\ a_masscan' = avail
          /\ IF avail = "yes"
               THEN \E run \in MasscanRuns, d \in ActiveDurations :
                      LET limit == Min(a_max_wait, MasscanCap)
                          out == MasscanOutcome(avail, run, a_cfg)
                      IN /\ d <= limit
                         /\ a_now' = a_now + RunTime(run, d, limit)
                         /\ a_tmpfiles' = IF run.kind = "ok" THEN a_tmpfiles
                                          ELSE a_tmpfiles + 1
                         /\ a_masscan_used' = out.masscan_used
                         /\ a_tool' = ToolOutcome(avail, run)
                         /\ a_open_ports' = out.open_ports
               ELSE /\ a_open_ports' = MasscanOutcome(avail, NoRun, a_cfg).open_ports
                    /\ a_now' = a_now + probed
                    /\ a_tool' = ToolOutcome(avail, NoRun)
                    /\ UNCHANGED <<a_tmpfiles, a_masscan_used>>
  /\ a_pc' = "nmap"
  /\ UNCHANGED <<a_hosts, a_i, a_h2ip, a_cfg, a_max_wait, a_report, a_services, a_seen,
                 a_processed, a_result>>

(* lines 548-599: the records of one nmap report, in the order of its ports *)
RECURSIVE NmapRecords(_, _, _)
NmapRecords(host, ip, ports) ==
  IF ports = <<>> THEN <<>>
  ELSE (IF KeepPort(Head(ports), ip)
          THEN <<[rec |-> ServiceRecord(host, ip, Head(ports)),
                  seen |-> Seen("nmap", ip, Head(ports))]>>
          ELSE <<>>)
       \o NmapRecords(host, ip, Tail(ports))

(* lines 607-648: the socket fallback over open_ports; connected is the set of
   positions whose connect_ex returns 0, cdn_check the value of line 619 *)
RECURSIVE SocketRecords(_, _, _, _, _, _)
SocketRecords(host, tip, cdn_check, ports, k, connected) ==
  IF k > Len(ports) THEN <<>>
  ELSE LET port == ParseInt(ports[k])
           emit == /\ k \in connected
                   /\ port # -1
                   /\ ~(cdn_check /\ port \notin WebPorts)
       IN (IF emit
             THEN <<[rec |-> [hostname |-> host, ip |-> tip, port |-> port,
                              protocol |-> "tcp", name |-> port_service_map(port),
                              version |-> <<117,110,118,101,114,105,102,105,101,100>>],
                     seen |-> [via |-> "socket", state |-> StOpen, port |-> port,
                               cdn |-> cdn_check, name |-> port_service_map(port),
                               version_info |-> EmptyStr, method |-> ""]]>>
             ELSE <<>>)
          \o SocketRecords(host, tip, cdn_check, ports, k + 1, connected)

(* lines 622-634: the positions of open_ports on which a socket is opened *)
Attempted(cdn_check, ports) ==
  { k \in 1..Len(ports) :
      ParseInt(ports[k]) # -1 /\ ~(cdn_check /\ ParseInt(ports[k]) \notin WebPorts) }

(* the sets of ports on which the stubbed host accepts a connection *)
Listening == { c \in SUBSET ListeningPorts : Cardinality(c) <= MaxPorts }

(* lines 526-651: nmap, and the socket fallback when nmap raises; a socket
   that does not connect is refused at once or runs into the timeout of
   line 632 *)
DetectServices ==
  /\ a_pc = "nmap"
  /\ \E run \in NmapRuns(target_ip), d \in ActiveDurations :
       \E listening \in (IF run.kind \in {"error", "timeout"} THEN Listening ELSE {{}}) :
       \E silent \in (IF run.kind \in {"error", "timeout"} THEN BOOLEAN ELSE {FALSE}) :
       LET host == a_hosts[a_i]
           cdn_check == is_cdn_ip(IF Contains(target_ip, 46) THEN target_ip ELSE host)
           connected == { k \in 1..Len(a_open_ports) : ParseInt(a_open_ports[k]) \in listening }
           waiting == Attempted(cdn_check, a_open_ports) \ connected
           sockets == IF silent THEN SocketTimeout * Cardinality(waiting) ELSE 0
           new == IF run.kind = "ok"
                    THEN NmapRecords(host, Or(run.addr, target_ip), run.ports)
                  ELSE IF run.kind \in {"error", "timeout"}
                    THEN SocketRecords(host, target_ip, cdn_check, a_open_ports, 1, connected)
                  ELSE <<>>
       IN /\ d <= NmapTimeout
          /\ a_now' = a_now + RunTime(run, d, NmapTimeout) + sockets
          /\ a_report' = run
          /\ a_services' = a_services \o [i \in 1..Len(new) |-> new[i].rec]
          /\ a_seen' = a_seen \o [i \in 1..Len(new) |-> new[i].seen]
          /\ a_tmpfiles' = IF run.kind = "ok" THEN a_tmpfiles ELSE a_tmpfiles + 1
  /\ a_pc' = "after"
  /\ UNCHANGED <<a_hosts, a_i, a_h2ip, a_cfg, a_max_wait, a_masscan, a_masscan_used,
                 a_tool, a_open_ports, a_processed, a_result>>

(* lines 653-663: the deadline check after each host, and the final return;
   the locals of the iteration are dropped *)
AfterHost ==
  /\ a_pc = "after"
  /\ a_processed' = a_processed + 1
  /\ a_tool' = "none"
  /\ a_report' = NoResult
  /\ IF a_now >= a_max_wait \/ a_i = Len(a_hosts)
       THEN a_result' = a_services /\ a_pc' = "done" /\ UNCHANGED a_i
       ELSE a_i' = a_i + 1 /\ a_pc' = "check" /\ UNCHANGED a_result
  /\ UNCHANGED <<a_hosts, a_h2ip, a_cfg, a_now, a_max_wait, a_masscan, a_masscan_used,
                 a_open_ports, a_services, a_seen, a_tmpfiles>>

NextActive ==
  \/ ActiveEntry /\ UNCHANGED <<ovars, pvars, svars, xvars>>
  \/ CheckHost /\ UNCHANGED <<ovars, pvars, svars, xvars>>
  \/ DiscoverPorts /\ UNCHANGED <<ovars, pvars, svars, xvars>>
  \/ DetectServices /\ UNCHANGED <<ovars, pvars, svars, xvars>>
  \/ AfterHost /\ UNCHANGED <<ovars, pvars, svars, xvars>>

SpecActive == InitActive /\ [][NextActive]_vars

(* ================================================================== *)
(* Claims about active_scan (checked under SpecActive)                 *)
(* ================================================================== *)

(* C10: every emitted record is for a port whose detected state is "open", or
   whose state is "open|filtered" and which, when it is a non-web port on a
   CDN-range IP, has a named service or a version string. *)
C10_OnlyCorroboratedPortsEmitted ==
  \A i \in 1..Len(a_seen) :
    \/ a_seen[i].state = StOpen
    \/ /\ a_seen[i].state = StOpenFiltered
       /\ (a_seen[i].cdn /\ a_seen[i].port \notin WebPorts) =>
            (a_seen[i].name # "unknown" \/ a_seen[i].version_info # EmptyStr)

(* the nmap report of the current host, after it was read *)
Reported == a_pc = "after" /\ a_report # NoResult /\ a_report.kind = "ok"

ReportAddr == Or(a_report.addr, target_ip)

(* the port element e of the report gave a record of the current host *)
Produced(e) ==
  \E i \in 1..Len(a_services) :
    /\ a_services[i].hostname = a_hosts[a_i]
    /\ a_services[i].port = ParseInt(e.portid)
    /\ a_seen[i] = Seen("nmap", ReportAddr, e)

NoServiceName(e) == ServiceAttrs(e).name = "unknown"

OnCdn8080(e, st) ==
  /\ is_cdn_ip(ReportAddr)
  /\ e.portid = Port8080
  /\ e.state = st
  /\ NoServiceName(e)

(* C11 as stated: on a CDN IP, port 8080 reported "open|filtered" with no
   service name gives no record, and reported "open" it gives one. *)
C11_Cdn8080OpenFilteredDropped ==
  Reported =>
    \A k \in 1..Len(a_report.ports) :
      /\ OnCdn8080(a_report.ports[k], StOpenFiltered) => ~Produced(a_report.ports[k])
      /\ OnCdn8080(a_report.ports[k], StOpen) => Produced(a_report.ports[k])

(* C11 amended: on a CDN IP, port 8080 with no service name gives a record
   when reported "open|filtered" as well as when reported "open", 8080 being a
   web port; port 9999 reported "open|filtered" with a service element that has
   the name unknown, no product or version and the method table gives none. *)
C11_Cdn8080AlwaysEmitted ==
  Reported =>
    \A k \in 1..Len(a_report.ports) :
      LET e == a_report.ports[k]
      IN /\ OnCdn8080(e, StOpenFiltered) => Produced(e)
         /\ OnCdn8080(e, StOpen) => Produced(e)
         /\ ( /\ is_cdn_ip(ReportAddr) /\ e.portid = Port9999 /\ e.state = StOpenFiltered
              /\ e.service.present /\ NoServiceName(e)
              /\ ServiceAttrs(e).version_info = EmptyStr /\ e.service.method = "table" )
              => ~Produced(e)

C11_Witness ==
  /\ Reported
  /\ Len(a_report.ports) = 1
  /\ OnCdn8080(a_report.ports[1], StOpenFiltered)
  /\ ~a_report.ports[1].service.present
  /\ Produced(a_report.ports[1])

ActiveDone == a_pc = "done"

(* C12: a host is started only while the elapsed time is below the timeout,
   and the list returned holds every record accumulated, in order: as many as
   were detected, the records of the hosts processed before the deadline. *)
C12_DeadlineBeforeEachHost ==
  /\ a_pc = "ports" => a_now < a_max_wait
  /\ ActiveDone =>
       /\ a_result = a_services
       /\ Len(a_result) = Len(a_seen)
       /\ \A i \in 1..Len(a_result) :
            /\ a_result[i].port = a_seen[i].port
            /\ \E h \in 1..a_processed : a_result[i].hostname = a_hosts[h]

C12_Witness ==
  /\ ActiveDone
  /\ Len(a_hosts) = 2
  /\ a_processed = 1
  /\ a_now >= a_max_wait
  /\ Len(a_result) >= 1
  /\ a_result[1].hostname = a_hosts[1]

(* the tool-level timeouts of one host: the masscan probe, masscan, nmap and
   one socket per candidate port *)
HostBudget ==
  VersionCheckTimeout + Min(a_max_wait, MasscanCap) + NmapTimeout
    + SocketTimeout * Len(a_open_ports)

(* C13: the elapsed time of active_scan never exceeds the timeout by more than
   the tool-level timeouts of one host. *)
C13_BoundedOvershoot ==
  a_pc # "idle" => a_now <= a_max_wait + HostBudget

C13_Witness ==
  /\ ActiveDone
  /\ Len(a_hosts) = 2
  /\ a_processed = 2
  /\ a_max_wait > 0
  /\ a_now > a_max_wait + NmapTimeout

(* C14: when the step that created them has finished, no temporary file of
   amass, masscan or nmap is left. *)
C14_TempFilesDeleted ==
  /\ p_pc \in {"ht", "dns", "finish", "done"} => p_tmpfiles = 0
  /\ a_pc \in {"after", "check", "done"} => a_tmpfiles = 0

(* what the caller of the masscan step sees *)
Observed == [masscan_used |-> a_masscan_used, open_ports |-> a_open_ports]

EmptyRun == [kind |-> "ok", ports |-> <<>>]

(* C15: after the masscan step the caller can tell the three cases apart: a
   missing tool gives the fallback list; a run that found nothing is a success
   and differs from the missing tool (no fallback); a timeout differs from
   both. *)
C15_ToolOutcomesDistinguished ==
  a_pc = "nmap" =>
    LET absent == MasscanOutcome("no", NoRun, a_cfg)
        nothing == MasscanOutcome("yes", EmptyRun, a_cfg)
    IN /\ a_tool = "absent" => Observed = absent /\ ~Observed.masscan_used
       /\ a_tool = "empty" => Observed # absent
       /\ a_tool = "timeout" => Observed # absent /\ Observed # nothing

(* ================================================================== *)
(* spiderfoot_scan: the poller of the remote SpiderFoot job            *)
(* ================================================================== *)

MaxEvents == 2       \* events the remote job stores besides ROOT

poll_interval == 5          \* line 1072
wait_after_completion == 5  \* line 1208
grace_period == 10          \* line 1251
grace_sleep == 2            \* line 1327
scan_depth == 3             \* routers/external_surface.py line 45

PollTimeouts == {0, 7, 10}
PollLatency == {0, 6}

(* the events of /scanexportjsonmulti *)
RootEvent == [event_type |-> "ROOT", data |-> RootDomain, module |-> ""]
NameEvent == [event_type |-> "INTERNET_NAME", data |-> ApiHost, module |-> "sfp_crt"]
BlankEvent == [event_type |-> "RAW_RIR_DATA", data |-> EmptyStr, module |-> "sfp_spider"]
EventUniverse == {NameEvent, BlankEvent}

(* lines 1161-1165 *)
Entity(item) == [type |-> item.event_type, value |-> item.data, module |-> item.module]

(* lines 1156-1166: the conversion of the main polling loop *)
ConvertPolled(results) ==
  LET kept == SelectSeq(results, LAMBDA item : item.event_type # "ROOT")
  IN [i \in 1..Len(kept) |-> Entity(kept[i])]

(* lines 1272-1289, 1368-1380, 1483-1500: the conversion of the grace period,
   of the final poll and of the final retrieval, which drops an event
   without type or data *)
ConvertChecked(results) ==
  LET kept == SelectSeq(results, LAMBDA item : /\ item.event_type # "ROOT"
                                                /\ item.event_type # ""
                                                /\ item.data # EmptyStr)
  IN [i \in 1..Len(kept) |-> Entity(kept[i])]

(* lines 1168-1170, 1291-1292: the modules named by a converted result set *)
ModulesOf(entities) == { entities[i].module : i \in 1..Len(entities) } \ {""}

Unbound == [bound |-> FALSE, names |-> {}]
Bound(names) == [bound |-> TRUE, names |-> names]

(* line 1128 *)
MainTerminal == {"FINISHED", "ERROR-FAILED", "ABORTED"}
(* line 1320 *)
GraceTerminal == {"FINISHED", "ABORTED", "ABORT-REQUESTED"}

(* how an HTTP request of the poller ends: status 200 with the expected JSON,
   another status code, a body that is no JSON, or a RequestException *)
Fetches == {"ok", "http_error", "not_json", "error"}

(* the remote job between two requests: it stores at most one more event
   while it runs, and its status moves towards a terminal one *)
ServerNext(events, status) ==
  LET grown == IF status \in {"RUNNING", "ABORT-REQUESTED"} /\ Len(events) <= MaxEvents
                 THEN {events} \cup { Append(events, e) : e \in EventUniverse }
                 ELSE {events}
      moved == IF status = "RUNNING" THEN {"RUNNING", "FINISHED", "ERROR-FAILED", "ABORTED"}
               ELSE IF status = "ABORT-REQUESTED" THEN {"ABORT-REQUESTED", "ABORTED"}
               ELSE {status}
  IN { [events |-> ev, status |-> st] : ev \in grown, st \in moved }

(* /stopscan: a running job that receives it is asked to abort *)
AfterStop(status, stop) ==
  IF stop = "ok" /\ status = "RUNNING" THEN "ABORT-REQUESTED" ELSE status

Fetched(results, phase) == [any |-> TRUE, results |-> results, phase |-> phase]

(* the accumulator extended by each result set instead of replaced *)
Accumulate_Appending(held, current_entities) == held \o current_entities

(* lines 1172, 1297, 1385: entities_found = current_entities *)
Accumulate(held, current_entities) == current_entities

(* the task is called: nothing polled yet, the remote job holds its ROOT event *)
InitSpider ==
  /\ s_pc = "start"
  /\ s_now = 0
  /\ s_max_wait \in PollTimeouts
  /\ s_grace = 0
  /\ scan_finished = "unbound"
  /\ scan_status = "UNKNOWN"
  /\ entities_found = <<>>
  /\ entities_count = 0
  /\ data_points = 0
  /\ modules_that_ran = Unbound
  /\ grace_poll_count = 0
  /\ s_result = NoResult
  /\ sf_events = <<RootEvent>>
  /\ sf_status = "RUNNING"
  /\ s_last = [any |-> FALSE, results |-> <<>>, phase |-> "none"]
  /\ s_fetches = 0
  /\ s_stops = <<>>
  /\ s_iter = 0
  /\ s_terminal = FALSE
  /\ OrchIdle
  /\ PassiveIdle
  /\ ActiveIdle
  /\ ServicesIdle

(* lines 935-1075 and 1571-1574: /startscan; without a URL the API is not
   tried, a refusal or an unreachable server raises *)
StartScan ==
  /\ s_pc = "start"
  /\ \E answer \in {"created", "refused", "http_error", "unreachable", "no_url"} :
       s_pc' = CASE answer = "created" -> "loop"
                 [] answer = "no_url" -> "tail"
                 [] OTHER -> "except"
  /\ UNCHANGED <<s_now, s_max_wait, s_grace, scan_finished, scan_status, entities_found,
                 entities_count, data_points, modules_that_ran, grace_poll_count, s_result,
                 sf_events, sf_status, s_last, s_fetches, s_stops, s_iter, s_terminal>>

(* the grace-period loop has no end of its own *)
GraceOver_Never(waited) == FALSE

(* line 1256: while (time.time() - grace_start) < grace_period *)
GraceOver(waited) == waited >= grace_period

(* lines 1086-1242: one iteration of the main polling loop. At the deadline
   the stop request is sent and the loop is left; else the status and the
   results are fetched, and the loop is left on a terminal status or when the
   time that remains is shorter than the poll interval. *)
PollIteration ==
  /\ s_pc = "loop"
  /\ IF s_now >= s_max_wait
       THEN \E stop \in {"ok", "failed"} :
              /\ sf_status' = AfterStop(sf_status, stop)
              /\ s_stops' = Append(s_stops, "loop")
              /\ s_pc' = "after_loop"
              /\ UNCHANGED <<s_now, scan_finished, scan_status, entities_found, data_points,
                             modules_that_ran, sf_events, s_last, s_fetches, s_iter,
                             s_terminal>>
       ELSE \E srv \in ServerNext(sf_events, sf_status), st \in Fetches, rs \in Fetches,
               lat \in PollLatency :
              LET status == IF st = "ok" THEN srv.status ELSE "UNKNOWN"
                  finished == status \in MainTerminal
                  got == rs = "ok"
                  current_entities == ConvertPolled(srv.events)
                  elapsed == s_now + lat
                  remaining_time == s_max_wait - elapsed
              IN /\ sf_events' = srv.events
                 /\ sf_status' = srv.status
                 /\ s_iter' = s_iter + 1
                 /\ scan_status' = status
                 /\ scan_finished' = IF finished THEN "True" ELSE "False"
                 /\ s_terminal' = (s_terminal \/ finished)
                 /\ entities_found' = IF got THEN Accumulate(entities_found, current_entities)
                                      ELSE entities_found
                 /\ data_points' = IF got THEN Len(Accumulate(entities_found, current_entities))
                                   ELSE data_points
                 /\ modules_that_ran' = IF got THEN Bound(ModulesOf(current_entities))
                                        ELSE modules_that_ran
                 /\ s_last' = IF got THEN Fetched(srv.events, "loop") ELSE s_last
                 /\ s_fetches' = IF got THEN s_fetches + 1 ELSE s_fetches
                 /\ IF finished
                      THEN /\ s_pc' = "after_loop"
                           /\ s_now' = elapsed + (IF got THEN 0 ELSE wait_after_completion)
                    ELSE IF remaining_time <= 0
                      THEN s_pc' = "after_loop" /\ s_now' = elapsed
                    ELSE IF remaining_time < poll_interval
                      THEN s_pc' = "after_loop" /\ s_now' = elapsed + remaining_time
                    ELSE s_pc' = "loop" /\ s_now' = elapsed + poll_interval
                 /\ UNCHANGED s_stops
  /\ UNCHANGED <<s_max_wait, s_grace, entities_count, grace_poll_count, s_result>>

(* lines 1244-1255 and 1436: after the loop. The test of line 1246 reads
   scan_finished, which is bound only by line 1108: when the loop was left in
   its first iteration the read raises UnboundLocalError. *)
AfterLoop ==
  /\ s_pc = "after_loop"
  /\ IF s_now >= s_max_wait /\ scan_finished = "unbound"
       THEN s_pc' = "except" /\ UNCHANGED <<entities_count, s_grace, grace_poll_count>>
     ELSE IF s_now >= s_max_wait /\ scan_finished = "False"
       THEN /\ entities_count' = Len(entities_found)
            /\ s_grace' = 0
            /\ grace_poll_count' = 0
            /\ s_pc' = "grace"
     ELSE s_pc' = "retrieve" /\ UNCHANGED <<entities_count, s_grace, grace_poll_count>>
  /\ UNCHANGED <<s_now, s_max_wait, scan_finished, scan_status, entities_found, data_points,
                 modules_that_ran, s_result, sf_events, sf_status, s_last, s_fetches,
                 s_stops, s_iter, s_terminal>>

(* lines 1294-1301 and 1384-1389: the result set fetched after the deadline
   is taken over only when it holds more entities than counted so far *)
TakeOver(got, current_entities) == got /\ Len(current_entities) > entities_count

(* lines 1256-1328: one iteration of the grace-period loop: the results are
   fetched in every second iteration, the status in every iteration *)
GracePoll ==
  /\ s_pc = "grace"
  /\ IF GraceOver(s_grace)
       THEN /\ s_pc' = "after_grace"
            /\ UNCHANGED <<s_grace, scan_finished, entities_found, entities_count,
                           modules_that_ran, grace_poll_count, sf_events, sf_status,
                           s_last, s_fetches, s_iter, s_terminal>>
       ELSE \E srv \in ServerNext(sf_events, sf_status), st \in Fetches, rs \in Fetches,
               lat \in PollLatency :
              LET asked == grace_poll_count % 2 = 0
                  got == asked /\ rs = "ok"
                  current_entities == ConvertChecked(srv.events)
                  more == TakeOver(got, current_entities)
                  finished == st = "ok" /\ srv.status \in GraceTerminal
              IN /\ sf_events' = srv.events
                 /\ sf_status' = srv.status
                 /\ s_iter' = s_iter + 1
                 /\ s_terminal' = (s_terminal \/ (st = "ok" /\ srv.status \in MainTerminal))
                 /\ entities_found' = IF more THEN Accumulate(entities_found, current_entities)
                                      ELSE entities_found
                 /\ entities_count' = IF more THEN Len(Accumulate(entities_found, current_entities))
                                      ELSE entities_count
                 /\ modules_that_ran' =
                      IF more THEN Bound(modules_that_ran.names \cup ModulesOf(current_entities))
                      ELSE modules_that_ran
                 /\ s_last' = IF got THEN Fetched(srv.events, "grace") ELSE s_last
                 /\ s_fetches' = IF got THEN s_fetches + 1 ELSE s_fetches
                 /\ IF finished
                      THEN /\ scan_finished' = "True"
                           /\ s_pc' = "after_grace"
                           /\ s_grace' = s_grace + lat
                           /\ UNCHANGED grace_poll_count
                      ELSE /\ s_grace' = s_grace + lat + grace_sleep
                           /\ grace_poll_count' = grace_poll_count + 1
                           /\ s_pc' = "grace"
                           /\ UNCHANGED scan_finished
  /\ UNCHANGED <<s_now, s_max_wait, scan_status, data_points, s_result, s_stops>>

(* lines 1414-1433: the dict returned after a timeout, with or without the
   key 'processed' *)
TimedOutResult(entities, modules, processed) ==
  [kind |-> "timed_out", entities |-> entities, data_points |-> Len(entities),
   modules_run |-> IF modules.bound THEN Cardinality(modules.names) ELSE 0,
   processed |-> processed, partial |-> TRUE, timeout |-> TRUE, warning |-> "timed out"]

(* lines 1330-1434: after the grace period the stop request is sent, the
   results are fetched once more and the timed-out result is returned *)
AfterGrace ==
  /\ s_pc = "after_grace"
  /\ \E stop \in {"ok", "failed"}, rs \in Fetches, processed \in BOOLEAN :
       \E srv \in ServerNext(sf_events, AfterStop(sf_status, stop)) :
         LET got == rs = "ok"
             final_entities == ConvertChecked(srv.events)
             more == TakeOver(got, final_entities)
             entities == IF more THEN Accumulate(entities_found, final_entities)
                         ELSE entities_found
             modules == IF more
                          THEN Bound(modules_that_ran.names \cup ModulesOf(final_entities))
                          ELSE modules_that_ran
         IN /\ sf_events' = srv.events
            /\ sf_status' = srv.status
            /\ s_stops' = Append(s_stops, "after_grace")
            /\ entities_found' = entities
            /\ entities_count' = IF more THEN Len(entities) ELSE entities_count
            /\ data_points' = Len(entities)
            /\ modules_that_ran' = modules
            /\ s_last' = IF got THEN Fetched(srv.events, "final") ELSE s_last
            /\ s_fetches' = IF got THEN s_fetches + 1 ELSE s_fetches
            /\ s_result' = TimedOutResult(entities, modules, processed)
  /\ s_pc' = "done"
  /\ UNCHANGED <<s_now, s_max_wait, s_grace, scan_finished, scan_status, grace_poll_count,
                 s_iter, s_terminal>>

(* lines 1436-1570: the final retrieval after a terminal status: the status
   and the results are fetched once more and the results replace what polling
   left; control then leaves the `if response.status_code == 200` block *)
Retrieve ==
  /\ s_pc = "retrieve"
  /\ \E srv \in ServerNext(sf_events, sf_status), st \in Fetches, rs \in Fetches :
       LET got == rs = "ok"
           entities == IF got THEN ConvertChecked(srv.events) ELSE entities_found
       IN /\ sf_events' = srv.events
          /\ sf_status' = srv.status
          /\ entities_found' = entities
          /\ data_points' = IF entities = <<>> THEN 0
                            ELSE IF got THEN Len(entities) ELSE data_points
          /\ modules_that_ran' = IF got THEN Bound(ModulesOf(entities)) ELSE modules_that_ran
          /\ s_last' = IF got THEN Fetched(srv.events, "retrieve") ELSE s_last
          /\ s_fetches' = IF got THEN s_fetches + 1 ELSE s_fetches
  /\ s_pc' = "tail"
  /\ UNCHANGED <<s_now, s_max_wait, s_grace, scan_finished, scan_status, entities_count,
                 grace_poll_count, s_result, s_stops, s_iter, s_terminal>>

(* lines 1646-1684: an exception of the API block; the entities found before
   it are returned, without them the fallback follows *)
ApiError ==
  /\ s_pc = "except"
  /\ IF entities_found # <<>>
       THEN \E processed \in BOOLEAN :
              /\ s_result' = [kind |-> "api_error", entities |-> entities_found,
                              data_points |-> Len(entities_found),
                              modules_run |-> IF modules_that_ran.bound
                                                THEN Cardinality(modules_that_ran.names) ELSE 0,
                              processed |-> processed, partial |-> FALSE, timeout |-> FALSE,
                              warning |-> "completed with some errors"]
              /\ s_pc' = "done"
       ELSE s_pc' = "tail" /\ UNCHANGED s_result
  /\ UNCHANGED <<s_now, s_max_wait, s_grace, scan_finished, scan_status, entities_found,
                 entities_count, data_points, modules_that_ran, grace_poll_count,
                 sf_events, sf_status, s_last, s_fetches, s_stops, s_iter, s_terminal>>

(* the passive scan of the fallback: its result, a failed task, or an
   exception of the call *)
FallbackRuns ==
  { [kind |-> "ok", subdomains |-> <<ApiHost, RootDomain>>,
     host_to_ip |-> [k \in {ApiHost} |-> PlainIp]],
    [kind |-> "ok", subdomains |-> <<RootDomain>>, host_to_ip |-> EmptyMap],
    [kind |-> "failed", subdomains |-> <<>>, host_to_ip |-> EmptyMap],
    [kind |-> "raised", subdomains |-> <<>>, host_to_ip |-> EmptyMap] }

(* lines 1713-1734: the entities of the fallback, at most scan_depth * 10 hosts *)
RECURSIVE FallbackEntities(_, _, _)
FallbackEntities(hosts, h2ip, k) ==
  IF k > Min(Len(hosts), scan_depth * 10) THEN <<>>
  ELSE <<[type |-> "INTERNET_NAME", value |-> hosts[k], module |-> "sfp_subdomain"]>>
       \o (IF hosts[k] \in DOMAIN h2ip
             THEN <<[type |-> "IP_ADDRESS", value |-> h2ip[hosts[k]],
                     module |-> "sfp_dnsresolve"]>>
             ELSE <<>>)
       \o FallbackEntities(hosts, h2ip, k + 1)

(* lines 1686-1826: spiderfoot_success is still False here (line 1644 cannot
   be reached), so without entities the passive-scan fallback runs; then the
   result is built and returned *)
FallbackAndReturn ==
  /\ s_pc = "tail"
  /\ \E run \in (IF entities_found = <<>> THEN FallbackRuns
                 ELSE {[kind |-> "none", subdomains |-> <<>>, host_to_ip |-> EmptyMap]}),
        processed \in BOOLEAN :
       IF run.kind = "raised"
         THEN /\ s_result' = [kind |-> "error", entities |-> <<>>, data_points |-> 0,
                              modules_run |-> 0, processed |-> FALSE, partial |-> FALSE,
                              timeout |-> FALSE, warning |-> ""]
              /\ UNCHANGED <<entities_found, data_points>>
         ELSE LET entities == IF run.kind = "ok"
                                THEN FallbackEntities(run.subdomains, run.host_to_ip, 1)
                                ELSE entities_found
              IN /\ entities_found' = entities
                 /\ data_points' = IF entities = <<>> THEN 0
                                   ELSE IF run.kind = "ok" THEN Len(entities) ELSE data_points
                 /\ s_result' = [kind |-> IF run.kind = "none" THEN "completed" ELSE "fallback",
                                 entities |-> entities,
                                 data_points |-> IF entities = <<>> THEN 0
                                                 ELSE IF run.kind = "ok" THEN Len(entities)
                                                 ELSE data_points,
                                 modules_run |-> IF run.kind = "ok" THEN 5
                                                 ELSE IF modules_that_ran.bound
                                                   THEN Cardinality(modules_that_ran.names)
                                                 ELSE 0,
                                 processed |-> processed, partial |-> FALSE,
                                 timeout |-> FALSE, warning |-> ""]
  /\ s_pc' = "done"
  /\ UNCHANGED <<s_now, s_max_wait, s_grace, scan_finished, scan_status, entities_count,
                 modules_that_ran, grace_poll_count, sf_events, sf_status, s_last,
                 s_fetches, s_stops, s_iter, s_terminal>>

NextSpider ==
  \/ StartScan /\ UNCHANGED <<ovars, pvars, avars, xvars>>
  \/ PollIteration /\ UNCHANGED <<ovars, pvars, avars, xvars>>
  \/ AfterLoop /\ UNCHANGED <<ovars, pvars, avars, xvars>>
  \/ GracePoll /\ UNCHANGED <<ovars, pvars, avars, xvars>>
  \/ AfterGrace /\ UNCHANGED <<ovars, pvars, avars, xvars>>
  \/ Retrieve /\ UNCHANGED <<ovars, pvars, avars, xvars>>
  \/ ApiError /\ UNCHANGED <<ovars, pvars, avars, xvars>>
  \/ FallbackAndReturn /\ UNCHANGED <<ovars, pvars, avars, xvars>>

SpecSpider == InitSpider /\ [][NextSpider]_vars

(* ================================================================== *)
(* Claims about the poller (checked under SpecSpider)                  *)
(* ================================================================== *)

SpiderDone == s_pc = "done"

(* the last successful fetch as its phase converts it *)
LastConverted ==
  IF s_last.phase = "loop" THEN ConvertPolled(s_last.results)
  ELSE ConvertChecked(s_last.results)

Polling == s_pc \in {"loop", "grace", "after_grace", "retrieve"}

(* C16: a step of the poller leaves the accumulator as it is or sets it to the
   converted result set of the one fetch made in that step, so it never holds
   the entities of two fetches together. *)
C16_AccumulatorIsOneFetch ==
  [][ Polling =>
        \/ entities_found' = entities_found
        \/ /\ s_fetches' = s_fetches + 1
           /\ entities_found' = LastConverted' ]_vars

(* the name event was returned by a poll of the main loop and again by a fetch
   of the grace period, and is held once *)
C16_Witness ==
  /\ s_pc = "grace"
  /\ s_last.phase = "grace"
  /\ s_last.results = <<RootEvent, NameEvent>>
  /\ s_fetches >= 2
  /\ entities_found = <<Entity(NameEvent)>>
  /\ entities_count = 1

(* C17: once a fetched status was FINISHED, ABORTED or ERROR-FAILED, no further
   poll iteration is started, in the main loop and in the grace-period loop. *)
C17_NoPollAfterTerminal == [][ s_terminal => s_iter' = s_iter ]_vars

(* C18: when the grace period begins, the stop request has been issued. *)
C18_StopBeforeGrace == s_pc = "grace" => s_stops # <<>>

(* the deadline was reached before a terminal status was observed: only then
   is a stop request sent (lines 1089 and 1246) *)
DeadlineFirst == s_stops # <<>>

(* C19: when the deadline was reached before a terminal status was observed,
   the returned result has timeout=True, partial=True and a warning. *)
C19_DeadlineFlagsTimeout ==
  (SpiderDone /\ DeadlineFirst) =>
    /\ s_result.timeout
    /\ s_result.partial
    /\ s_result.warning # ""

(* C20: the entities of a timed-out result are those of the last result set
   fetched successfully, under the conversion of the main loop or that of the
   grace period. *)
C20_TimedOutHoldsLastObserved ==
  (SpiderDone /\ s_result.kind = "timed_out" /\ s_last.any) =>
    s_result.entities \in {ConvertPolled(s_last.results), ConvertChecked(s_last.results)}

(* the passive-scan fallback of lines 1693-1750 was entered *)
FallbackUsed == s_result.kind \in {"fallback", "error"}

(* C21: a scan the API accepted and whose terminal status the poller fetched
   never ends in the passive-scan fallback, with any number of entities,
   zero included. *)
C21_NoFallbackAfterTerminal == (SpiderDone /\ s_terminal) => ~FallbackUsed

(* ================================================================== *)
(* Claims about orchestrate_scan, continued (checked under Spec)       *)
(* ================================================================== *)

SpecSpiderLive == InitSpider /\ [][NextSpider]_vars /\ WF_vars(NextSpider)

(* C23: the deadline check that finds the deadline passed leaves the main
   loop, the grace-period loop is left once its fixed grace period is over,
   and the task eventually returns a result, whatever the remote job and the
   requests do. *)
C23_PollingTerminates ==
  /\ [][ (s_pc = "loop" /\ s_now >= s_max_wait) => s_pc' # "loop" ]_vars
  /\ [][ (s_pc = "grace" /\ s_grace >= grace_period) => s_pc' # "grace" ]_vars
  /\ <>SpiderDone

(* a result was returned although the job never left RUNNING, no fetch
   succeeded and the whole grace period was waited *)
C23_Witness ==
  /\ SpiderDone
  /\ sf_status = "RUNNING"
  /\ s_fetches = 0
  /\ ~s_terminal
  /\ s_grace >= grace_period

(* ================================================================== *)
(* Claims about passive_scan, continued (checked under SpecPassive)    *)
(* ================================================================== *)

(* C26: every hostname of the returned list is the target domain or ends
   with "." followed by the target domain, whichever source contributed it. *)
C26_HostsUnderTarget ==
  p_result # NoResult =>
    \A h \in Range(p_result.subdomains) : IsUnder(h, RootDomain)

(* ================================================================== *)
(* Claims about the indexed documents (checked under Spec)             *)
(* ================================================================== *)

(* the addresses a host's document may carry: its entry of host_to_ip or,
   lacking one, the ip of one of its own service records (nothing at all for
   a host with neither) *)
OwnIps(h) ==
  IF Get(host_to_ip, h, EmptyStr) # EmptyStr THEN {host_to_ip[h]}
  ELSE LET own == { services[k].ip :
                      k \in { n \in 1..Len(services) : services[n].hostname = h } }
       IN IF own = {} THEN {EmptyStr} ELSE own

(* C27: in every per-host document built for indexing, asset.ip is an address
   of the document's own host, never the ip of a different host. *)
C27_AssetIpOfOwnHost ==
  \A i \in 1..Len(es_indexed) : es_indexed[i].ip \in OwnIps(es_indexed[i].hostname)

(* C28: the documents one run submits to the flattened search index have
   pairwise distinct values in the primary-key field scan_id. *)
C28_PrimaryKeysDistinct ==
  \A i \in 1..Len(meili_indexed) : \A j \in 1..Len(meili_indexed) :
    i # j => meili_indexed[i].scan_id # meili_indexed[j].scan_id

(* ================================================================== *)
(* start_spiderfoot_scan (routers/external_surface.py)                 *)
(* ================================================================== *)
Blanks == <<32, 32>>                                        \* "  "
PaddedTarget == <<32, 69>> \o Tail(RootDomain) \o <<32>>    \* " Example.com "
TypeDomain == <<100,111,109,97,105,110>>                    \* "domain"
TypeIpUpper == <<73,80>>                                    \* "IP"
TypeIp == <<105,112>>                                       \* "ip"
TypeAsn == <<97,115,110>>                                   \* "asn"
TypeNetblock == <<110,101,116,98,108,111,99,107>>           \* "netblock"
TypeHost == <<104,111,115,116>>                             \* "host"

(* line 83 *)
valid_target_types == {TypeDomain, TypeIp, TypeAsn, TypeNetblock}

(* lines 40-48: the fields of ASMScanRequest the handler reads *)
ScanRequests ==
  [target : {EmptyStr, Blanks, RootDomain, PaddedTarget},
   target_type : {TypeDomain, TypeIpUpper, TypeAsn, TypeHost},
   scan_depth : {0, 1, 3, 1000, 1001},
   timeout : {0, 3600}]

HTTPException(status_code, detail) == [status_code |-> status_code, detail |-> detail]

(* lines 75-89: the first check that fails, NoResult when all pass *)
Rejection(request) ==
  IF Strip(request.target) = EmptyStr
    THEN HTTPException(400, "Target domain is required")
  ELSE IF Lower(request.target_type) \notin valid_target_types
    THEN HTTPException(400, "Invalid target_type")
  ELSE IF request.scan_depth < 1 \/ request.scan_depth > 1000
    THEN HTTPException(400, "scan_depth must be between 1 and 1000")
  ELSE NoResult

InitRouter ==
  /\ OrchIdle
  /\ PassiveIdle
  /\ ActiveIdle
  /\ SpiderIdle
  /\ HibpIdle
  /\ TakedownIdle
  /\ AuthIdle
  /\ r_pc = "start"
  /\ r_request \in ScanRequests
  /\ r_exc = NoResult
  /\ r_status = 0
  /\ r_queue = <<>>

(* lines 74-89: the validation, inside the outer try *)
Validate ==
  /\ r_pc = "start"
  /\ r_exc' = Rejection(r_request)
  /\ r_pc' = IF Rejection(r_request) = NoResult THEN "queue" ELSE "except"
  /\ UNCHANGED <<r_request, r_status, r_queue>>

(* lines 205-235: the task is queued and the answer built; a failure of the
   import or of delay() is turned into HTTPException(500), raised inside the
   outer try as well *)
QueueTask ==
  /\ r_pc = "queue"
  /\ \E delay \in {"ok", "raises"} :
       IF delay = "ok"
         THEN /\ r_queue' = Append(r_queue,
                              [target |-> Lower(Strip(r_request.target)),
                               target_type |-> Lower(r_request.target_type),
                               scan_depth |-> r_request.scan_depth,
                               timeout |-> r_request.timeout])
              /\ r_status' = 200
              /\ r_pc' = "done"
              /\ UNCHANGED r_exc
         ELSE /\ r_exc' = HTTPException(500, "Failed to queue scan")
              /\ r_pc' = "except"
              /\ UNCHANGED <<r_status, r_queue>>
  /\ UNCHANGED r_request

(* lines 236-238: except Exception as e: raise HTTPException(500, str(e));
   HTTPException is an Exception, so the ones raised above arrive here *)
OuterExcept ==
  /\ r_pc = "except"
  /\ r_status' = HTTPException(500, r_exc.detail).status_code
  /\ r_pc' = "done"
  /\ UNCHANGED <<r_request, r_exc, r_queue>>

NextRouter ==
  \/ Validate /\ UNCHANGED <<ovars, pvars, avars, svars, hvars, tvars, uvars>>
  \/ QueueTask /\ UNCHANGED <<ovars, pvars, avars, svars, hvars, tvars, uvars>>
  \/ OuterExcept /\ UNCHANGED <<ovars, pvars, avars, svars, hvars, tvars, uvars>>

SpecRouter == InitRouter /\ [][NextRouter]_vars

(* the request fails one of the three checks *)
InvalidRequest ==
  \/ Strip(r_request.target) = EmptyStr
  \/ Lower(r_request.target_type) \notin valid_target_types
  \/ r_request.scan_depth < 1
  \/ r_request.scan_depth > 1000

(* C24: a request with an empty target, an unknown target_type or a scan_depth
   outside 1..1000 is answered with HTTP status 400 and queues no task. *)
C24_InvalidRejectedWith400 ==
  (r_pc = "done" /\ InvalidRequest) => (r_status = 400 /\ r_queue = <<>>)

(* ================================================================== *)
(* DataLeakMonitor: the HIBP rate limit (services/data_leak_monitor.py) *)
(* ================================================================== *)
MaxCallers == 3      \* coroutines that call an HIBP-backed check
MaxTicks == 12       \* half seconds the clock is followed while the loop is idle

hibp_rate_limit == 15    \* line 122: 1.5 s, in tenths of a second
RequestDurations == {5, 20}   \* requests.get blocks the event loop this long

Callers == 1..MaxCallers

InitHibp ==
  /\ OrchIdle
  /\ PassiveIdle
  /\ ActiveIdle
  /\ SpiderIdle
  /\ RouterIdle
  /\ TakedownIdle
  /\ AuthIdle
  /\ h_clock = 0
  /\ hibp_api_key \in BOOLEAN
  /\ last_hibp_request = -1
  /\ h_pc = [c \in Callers |-> "idle"]
  /\ h_wake = [c \in Callers |-> 0]
  /\ h_requests = <<>>

(* lines 138-139 and 173-178: the time of the request is stored, then
   requests.get runs to its end without yielding to the event loop *)
IssueRequest(c) ==
  \E d \in RequestDurations :
    /\ last_hibp_request' = h_clock
    /\ h_requests' = Append(h_requests, h_clock)
    /\ h_clock' = h_clock + d
    /\ h_pc' = [h_pc EXCEPT ![c] = "done"]

(* lines 155-159 and 133-137: a caller enters check_email_breaches; without a
   key it returns at once, within the interval it suspends in asyncio.sleep,
   else it goes on to the request in the same step *)
CallCheck(c) ==
  /\ h_pc[c] = "idle"
  /\ IF ~hibp_api_key
       THEN /\ h_pc' = [h_pc EXCEPT ![c] = "done"]
            /\ UNCHANGED <<h_clock, last_hibp_request, h_wake, h_requests>>
     ELSE IF last_hibp_request # -1 /\ h_clock - last_hibp_request < hibp_rate_limit
       THEN /\ h_pc' = [h_pc EXCEPT ![c] = "sleeping"]
            /\ h_wake' = [h_wake EXCEPT
                            ![c] = h_clock + (hibp_rate_limit - (h_clock - last_hibp_request))]
            /\ UNCHANGED <<h_clock, last_hibp_request, h_requests>>
     ELSE IssueRequest(c) /\ UNCHANGED h_wake
  /\ UNCHANGED hibp_api_key

(* lines 137-139: asyncio.sleep is over, the caller resumes *)
WakeUp(c) ==
  /\ h_pc[c] = "sleeping"
  /\ h_clock >= h_wake[c]
  /\ IssueRequest(c)
  /\ UNCHANGED <<hibp_api_key, h_wake>>

(* half a second passes while no coroutine is ready to run *)
Tick ==
  /\ h_clock + 5 <= 5 * MaxTicks
  /\ \A c \in Callers : h_pc[c] = "sleeping" => h_clock < h_wake[c]
  /\ h_clock' = h_clock + 5
  /\ UNCHANGED <<hibp_api_key, last_hibp_request, h_pc, h_wake, h_requests>>

NextHibp ==
  \/ (\E c \in Callers : CallCheck(c)) /\ UNCHANGED <<ovars, pvars, avars, svars, rvars, tvars, uvars>>
  \/ (\E c \in Callers : WakeUp(c)) /\ UNCHANGED <<ovars, pvars, avars, svars, rvars, tvars, uvars>>
  \/ Tick /\ UNCHANGED <<ovars, pvars, avars, svars, rvars, tvars, uvars>>

SpecHibp == InitHibp /\ [][NextHibp]_vars

(* C25: any two HIBP requests issued through the instance start at least the
   rate-limit interval apart, for every interleaving of concurrent callers. *)
C25_RequestsSpacedByRateLimit ==
  \A i \in 1..Len(h_requests) : \A j \in 1..Len(h_requests) :
    i < j => h_requests[j] - h_requests[i] >= hibp_rate_limit

(* ================================================================== *)
(* Takedown requests and their summary (routers/takedown.py)           *)
(* ================================================================== *)
MaxRequests == 2     \* takedown requests created

(* services/takedown_monitor.py lines 43-52 *)
TakedownStatus ==
  {"detected", "investigating", "takedown_requested", "takedown_pending",
   "takedown_completed", "takedown_rejected", "monitoring", "false_positive"}

ThreatIds == {"t1", "t2"}
ThreatArgs == ThreatIds \cup {"unknown"}
StatusArgs == TakedownStatus \cup {"closed"}

InitTakedown ==
  /\ OrchIdle
  /\ PassiveIdle
  /\ ActiveIdle
  /\ SpiderIdle
  /\ RouterIdle
  /\ HibpIdle
  /\ AuthIdle
  /\ threats_db = [t \in ThreatIds |-> "detected"]
  /\ takedown_requests_db = <<>>
  /\ t_response = 0
  /\ t_summary = NoResult

(* takedown_monitor.py lines 652-671: the request starts as 'detected' *)
generate_takedown_request(threat_id, n) ==
  [id |-> n, threat_id |-> threat_id, status |-> "detected"]

(* lines 532-561: the request is stored and the threat marked as requested *)
create_takedown_request(threat_id) ==
  /\ Len(takedown_requests_db) < MaxRequests
  /\ IF threat_id \notin DOMAIN threats_db
       THEN /\ t_response' = 404
            /\ UNCHANGED <<threats_db, takedown_requests_db>>
       ELSE /\ takedown_requests_db' =
                 Append(takedown_requests_db,
                        generate_takedown_request(threat_id, Len(takedown_requests_db) + 1))
            /\ threats_db' = [threats_db EXCEPT ![threat_id] = "takedown_requested"]
            /\ t_response' = 200
  /\ t_summary' = NoResult

(* lines 450-475: only the threat is updated *)
update_threat_status(threat_id, status) ==
  /\ IF threat_id \notin DOMAIN threats_db
       THEN t_response' = 404 /\ UNCHANGED threats_db
     ELSE IF status \notin TakedownStatus
       THEN t_response' = 400 /\ UNCHANGED threats_db
     ELSE /\ threats_db' = [threats_db EXCEPT ![threat_id] = status]
          /\ t_response' = 200
  /\ t_summary' = NoResult
  /\ UNCHANGED takedown_requests_db

(* lines 638-641; the rate in hundredths of a percent, round(x, 2) *)
SuccessRate(requests) ==
  LET completed == Cardinality({ i \in 1..Len(requests) :
                                   requests[i].status = "takedown_completed" })
      total_requests == Len(requests)
  IN IF total_requests > 0
       THEN (2 * completed * 10000 + total_requests) \div (2 * total_requests)
       ELSE 0

(* lines 615-649 *)
get_takedown_summary ==
  /\ t_summary' = [total_threats |-> Cardinality(DOMAIN threats_db),
                   total_takedown_requests |-> Len(takedown_requests_db),
                   takedown_success_rate |-> SuccessRate(takedown_requests_db)]
  /\ t_response' = 200
  /\ UNCHANGED <<threats_db, takedown_requests_db>>

NextTakedown ==
  \/ (\E t \in ThreatArgs : create_takedown_request(t))
       /\ UNCHANGED <<ovars, pvars, avars, svars, rvars, hvars, uvars>>
  \/ (\E t \in ThreatArgs, st \in StatusArgs : update_threat_status(t, st))
       /\ UNCHANGED <<ovars, pvars, avars, svars, rvars, hvars, uvars>>
  \/ get_takedown_summary /\ UNCHANGED <<ovars, pvars, avars, svars, rvars, hvars, uvars>>

SpecTakedown == InitTakedown /\ [][NextTakedown]_vars

(* a request exists for a threat that is now takedown_completed; creating the
   request set the threat to takedown_requested, so the completion came later *)
RequestedThenCompleted ==
  \E i \in 1..Len(takedown_requests_db) :
    threats_db[takedown_requests_db[i].threat_id] = "takedown_completed"

(* C29: after a takedown request was created for a threat and the threat was
   then set to takedown_completed, the summary counts the request as
   completed: takedown_success_rate is greater than 0. *)
C29_CompletedRequestCounted ==
  (t_summary # NoResult /\ RequestedThenCompleted) => t_summary.takedown_success_rate > 0

(* ================================================================== *)
(* POST /auth/verify (routers/auth.py, services/memory_manager.py)     *)
(* ================================================================== *)
UserAlice == <<97,108,105,99,101>>   \* "alice"
UserBob == <<98,111,98>>             \* "bob"

(* the bearer tokens: jwt.decode returns the payload, or raises
   ExpiredSignatureError or InvalidTokenError; a claim that is absent is the
   empty string here, both are falsy *)
Tokens ==
  [jwt : {"valid", "expired", "invalid"},
   sub : {EmptyStr, UserAlice, UserBob},
   user_id : {EmptyStr, UserAlice}]

(* the session cache: no client configured, a client whose calls raise, or a
   client holding session keys *)
RedisClients ==
  { c \in [configured : BOOLEAN, raises : BOOLEAN, sessions : SUBSET {UserAlice, UserBob}] :
      c.configured \/ (~c.raises /\ c.sessions = {}) }

InitAuth ==
  /\ OrchIdle
  /\ PassiveIdle
  /\ ActiveIdle
  /\ SpiderIdle
  /\ RouterIdle
  /\ HibpIdle
  /\ TakedownIdle
  /\ u_pc = "start"
  /\ u_token \in Tokens
  /\ redis_client \in RedisClients
  /\ u_payload = NoResult
  /\ u_response = NoResult

Unauthorized(detail) == [status_code |-> 401, valid |-> FALSE, user_id |-> EmptyStr,
                         detail |-> detail]

(* lines 31-45: jwt.decode, its two errors answered with 401 *)
verify_jwt_token ==
  /\ u_pc = "start"
  /\ IF u_token.jwt = "valid"
       THEN /\ u_payload' = [sub |-> u_token.sub, user_id |-> u_token.user_id]
            /\ u_pc' = "session"
            /\ UNCHANGED u_response
       ELSE /\ u_response' = Unauthorized(IF u_token.jwt = "expired" THEN "Token expired"
                                          ELSE "Invalid token")
            /\ u_pc' = "done"
            /\ UNCHANGED u_payload
  /\ UNCHANGED <<u_token, redis_client>>

(* memory_manager.py lines 122-132 *)
validate_session(user_id) ==
  IF ~redis_client.configured THEN FALSE
  ELSE IF redis_client.raises THEN FALSE
  ELSE user_id \in redis_client.sessions

(* lines 57-72: the session is looked up only `if user_id` *)
verify_token ==
  /\ u_pc = "session"
  /\ LET user_id == Or(u_payload.sub, u_payload.user_id)
     IN u_response' =
          IF user_id # EmptyStr /\ ~validate_session(user_id)
            THEN Unauthorized("Session not found in cache")
            ELSE [status_code |-> 200, valid |-> TRUE, user_id |-> user_id, detail |-> ""]
  /\ u_pc' = "done"
  /\ UNCHANGED <<u_token, redis_client, u_payload>>

NextAuth ==
  \/ verify_jwt_token /\ UNCHANGED <<ovars, pvars, avars, svars, rvars, hvars, tvars>>
  \/ verify_token /\ UNCHANGED <<ovars, pvars, avars, svars, rvars, hvars, tvars>>

SpecAuth == InitAuth /\ [][NextAuth]_vars

(* a session of the token's user is in the session cache *)
SessionCached ==
  /\ redis_client.configured
  /\ ~redis_client.raises
  /\ Or(u_token.sub, u_token.user_id) \in redis_client.sessions

(* C30: the answer is valid=True only for a valid JWT whose user has a session
   in the session cache; a token without such a session is answered 401. *)
C30_ValidOnlyWithSession ==
  u_pc = "done" =>
    /\ u_response.valid => (u_token.jwt = "valid" /\ SessionCached)
    /\ ~SessionCached => u_response.status_code = 401

====
